---- MODULE Spec2Model ----
(***************************************************************************)
(* Peer-session establishment and message encryption of the direct WebRTC  *)
(* messenger: the DirectP2PService class (services/directP2P) and the      *)
(* Diffie-Hellman helpers it calls (services/diffieHellman).               *)
(*                                                                         *)
(* Every service instance is a node.  Native objects (RTCPeerConnection,   *)
(* RTCDataChannel) live in two global pools, conns and chans, because they *)
(* outlive their entry in the service's maps.  Every await of the source   *)
(* is a separate step: the part of a handler up to its first await is one  *)
(* action, each continuation is another.                                   *)
(***************************************************************************)
EXTENDS Integers, Sequences, FiniteSets, TLC

\* ------------------------------------------------------------------ bounds
Nodes == {"A", "B"}
Peers == Nodes
MaxConns == 2
MaxKeys == 2
MaxSends == 1
MaxCands == 2
MaxFaults == 1
NumIV == 2
MaxEncrypts == 3

Texts == {"hello"}
Files == {[name |-> "p.png", size |-> 4, type |-> "image/png", content |-> "AAAA"],
          [name |-> "n.txt", size |-> 4, type |-> "text/plain", content |-> "BBBB"]}
\* a remote candidate is named by its place in the order of arrival
Candidates == 1..MaxCands

\* ----------------------------------------------------- diffieHellman module
\* A key pair is named by the index k of its generation; 0 is null.
PublicKey(k) == [usage |-> "public", k |-> k]
PrivateKey(k) == [usage |-> "private", k |-> k]
NoSecret == {}
DecryptionFailed == [error |-> "DecryptionFailed"]
MalformedKey == [error |-> "MalformedKey"]

\* exportKey('raw') of the public point, then base64
arrayBufferToBase64(bytes) == [b64 |-> bytes]
base64ToArrayBuffer(s) == s.b64
exportDHPublicKey(publicKey) == arrayBufferToBase64([point |-> publicKey.k])

\* atob, then importKey('raw'): only an encoded curve point imports
importDHPublicKey(keyData) ==
  IF "b64" \in DOMAIN keyData /\ "point" \in DOMAIN base64ToArrayBuffer(keyData)
  THEN PublicKey(base64ToArrayBuffer(keyData).point)
  ELSE MalformedKey

\* a derivation that uses the local half only
deriveSharedSecret_localOnly(privateKey, publicKey) == {privateKey.k}

\* ECDH: the derived AES key depends on the two key pairs, not on which of
\* them contributes the private half
deriveSharedSecret(privateKey, publicKey) == {privateKey.k, publicKey.k}

\* Strings beside the texts of the chat: the empty string, a string with a
\* character beyond U+00FF, a string with an unpaired surrogate, and the
\* string in which U+FFFD stands in its place.
EmptyText == ""
WideText == "snowman U+2603"
LoneSurrogate == "unpaired U+D800"
ReplacementText == "replaced U+FFFD"
IsLatin1(data) == data \notin {WideText, LoneSurrogate, ReplacementText}

\* new TextEncoder().encode: UTF-8 of the string, an unpaired surrogate being
\* encoded as U+FFFD.  Bytes are named by the text they decode to, which is
\* what new TextDecoder().decode returns.
TextEncode(data) == IF data = LoneSurrogate THEN ReplacementText ELSE data
TextDecode(bytes) == bytes

\* AES-GCM under a fresh 96-bit IV
encryptWithSharedSecret(sharedSecret, data, iv) ==
  [ciphertext |-> arrayBufferToBase64([key |-> sharedSecret, iv |-> iv,
                                       data |-> TextEncode(data)]),
   iv |-> arrayBufferToBase64(iv)]

\* AES-GCM decryption authenticates key, IV and ciphertext
decryptWithSharedSecret(sharedSecret, encryptedData) ==
  LET c == base64ToArrayBuffer(encryptedData.ciphertext)
      iv == base64ToArrayBuffer(encryptedData.iv)
  IN IF c.key = sharedSecret /\ c.iv = iv THEN [str |-> TextDecode(c.data)]
     ELSE DecryptionFailed

\* -------------------------- diffieHellman module, revision with a fallback
\* btoa of a string, and atob: the characters of a string come back as they
\* were, other bytes come back as a string of those bytes
btoa(data) == arrayBufferToBase64([latin1 |-> data])
atob(s) ==
  IF "latin1" \in DOMAIN base64ToArrayBuffer(s)
  THEN [str |-> base64ToArrayBuffer(s).latin1]
  ELSE [str |-> "bytes", of |-> base64ToArrayBuffer(s)]

\* FallbackDiffieHellman: keys are objects with an id, the shared key is the
\* private id followed by the public id, encryption is base64
FallbackDeriveSharedSecret(privateKey, publicKey) == [id |-> <<privateKey.k, publicKey.k>>]
\* btoa throws on a character beyond U+00FF
InvalidCharacter == [error |-> "InvalidCharacterError"]
FallbackEncrypt(data) ==
  IF IsLatin1(data) THEN [ciphertext |-> btoa(data), iv |-> btoa("fallback-iv")]
  ELSE InvalidCharacter
FallbackDecrypt_error(encryptedData) == [str |-> "[Decryption Error]"]

FallbackDecrypt(encryptedData) ==
  IF "b64" \in DOMAIN encryptedData.ciphertext
  THEN atob(encryptedData.ciphertext)
  ELSE [str |-> "[Decryption Error]"]

\* crypto.subtle.decrypt rejects: key, IV and ciphertext do not belong
\* together
SubtleDecryptRejects(sharedSecret, encryptedData) ==
  \/ "key" \notin DOMAIN base64ToArrayBuffer(encryptedData.ciphertext)
  \/ base64ToArrayBuffer(encryptedData.ciphertext).key # sharedSecret
  \/ base64ToArrayBuffer(encryptedData.ciphertext).iv # base64ToArrayBuffer(encryptedData.iv)

\* The three functions of this revision, available being isCryptoAvailable():
\* each goes to the fallback when the platform has no Web Crypto, and
\* decryption also when crypto.subtle.decrypt rejects.  With Web Crypto the
\* keys are the platform's.
deriveSharedSecretOrFallback(privateKey, publicKey, available) ==
  IF available THEN deriveSharedSecret(privateKey, publicKey)
  ELSE FallbackDeriveSharedSecret(privateKey, publicKey)

encryptWithSharedSecretOrFallback(sharedSecret, data, iv, available) ==
  IF available
  THEN encryptWithSharedSecret(sharedSecret, data, iv)
  ELSE FallbackEncrypt(data)

decryptWithSharedSecretOrFallback(sharedSecret, encryptedData, available) ==
  IF available /\ ~SubtleDecryptRejects(sharedSecret, encryptedData)
  THEN [str |-> TextDecode(base64ToArrayBuffer(encryptedData.ciphertext).data)]
  ELSE FallbackDecrypt(encryptedData)

\* ------------------------------------------------------------ crypto module
\* An RSA-OAEP key pair is named by the index k of its generation.
RsaPublicKey(k) == [usage |-> "encrypt", k |-> k]
RsaPrivateKey(k) == [usage |-> "decrypt", k |-> k]

\* FallbackCrypto: base64 of the text under a constant IV and a constant key
FallbackCryptoEncrypt(text) ==
  IF IsLatin1(text)
  THEN [iv |-> btoa("development-iv"), ciphertext |-> btoa(text),
        encryptedKey |-> btoa("fake-key")]
  ELSE InvalidCharacter
FallbackCryptoDecrypt(encrypted) ==
  IF "b64" \in DOMAIN encrypted.ciphertext
  THEN atob(encrypted.ciphertext)
  ELSE [str |-> "[Decryption Error]"]

\* The revision that throws: a fresh AES key encrypts the message under a
\* fresh IV, RSA-OAEP under the recipient's public key encrypts the AES key.
encryptMessageStrict(message, recipientPublicKey, aesKey, iv) ==
  [iv |-> arrayBufferToBase64(iv),
   ciphertext |-> arrayBufferToBase64([key |-> aesKey, iv |-> iv,
                                       data |-> TextEncode(message)]),
   encryptedKey |-> arrayBufferToBase64([rsa |-> recipientPublicKey.k, raw |-> aesKey])]

\* one of the platform calls of decryptMessage rejects: RSA-OAEP with a
\* private key of another pair, AES-GCM with another key or IV
HybridDecryptRejects(encryptedMsg, privateKey) ==
  \/ "rsa" \notin DOMAIN base64ToArrayBuffer(encryptedMsg.encryptedKey)
  \/ base64ToArrayBuffer(encryptedMsg.encryptedKey).rsa # privateKey.k
  \/ base64ToArrayBuffer(encryptedMsg.ciphertext).key
        # base64ToArrayBuffer(encryptedMsg.encryptedKey).raw
  \/ base64ToArrayBuffer(encryptedMsg.ciphertext).iv # base64ToArrayBuffer(encryptedMsg.iv)

decryptMessageStrict(encryptedMsg, privateKey) ==
  IF HybridDecryptRejects(encryptedMsg, privateKey) THEN DecryptionFailed
  ELSE [str |-> TextDecode(base64ToArrayBuffer(encryptedMsg.ciphertext).data)]

\* The revision with the fallback, available being isCryptoAvailable()
encryptMessage(message, recipientPublicKey, aesKey, iv, available) ==
  IF available THEN encryptMessageStrict(message, recipientPublicKey, aesKey, iv)
  ELSE FallbackCryptoEncrypt(message)

decryptMessage(encryptedMsg, privateKey, available) ==
  IF available /\ ~HybridDecryptRejects(encryptedMsg, privateKey)
  THEN [str |-> TextDecode(base64ToArrayBuffer(encryptedMsg.ciphertext).data)]
  ELSE FallbackCryptoDecrypt(encryptedMsg)

\* ------------------------------------------------------- message envelopes
\* A plain string payload is the record [str |-> s]; every other payload is
\* an object, so the source's typeof/in tests become tests on DOMAIN.
Str(s) == [str |-> s]
IsObject(v) == "str" \notin DOMAIN v
IsEncryptedData(v) == IsObject(v) /\ "ciphertext" \in DOMAIN v /\ "iv" \in DOMAIN v
AppTypes == {"TEXT", "IMAGE", "FILE"}

\* JSON text frame on the data channel
Stringify(message) == [json |-> message]
Parse(frame) == frame.json

FileType(file) == IF SubSeq(file.type, 1, 6) = "image/" THEN "IMAGE" ELSE "FILE"

\* reader.readAsDataURL(file), then split(',')[1]
fileToBase64(file) == <<"data:" \o file.type \o ";base64", file.content>>[2]

\* ------------------------------------------------------------------- state
VARIABLES
  initialized,        \* node -> BOOLEAN
  dhKeyPair,          \* node -> key index, 0 = null
  userId,             \* node -> id index, 0 = ''
  connections,        \* node -> peer -> connection object, 0 = no entry
  dataChannels,       \* node -> peer -> data channel object, 0 = no entry
  sharedSecrets,      \* node -> peer -> secret, NoSecret = no entry
  pendingOffers,      \* node -> peer -> offer, 0 = no entry
  connectionState,    \* node -> peer -> state, "none" = no entry
  pendingCandidates,  \* node -> peer -> buffered candidates
  conns,              \* pool of RTCPeerConnection objects
  chans,              \* pool of RTCDataChannel objects
  hmTasks,            \* handleMessage calls suspended at an await
  sendTasks,          \* sendTextMessage / sendFile calls suspended at an await
  nextId,             \* node -> nanoid source
  budget,             \* what the environment has done, and budget.max, what it may do
  obs                 \* what the last step did: call result, frame sent, callbacks

vars == <<initialized, dhKeyPair, userId, connections, dataChannels, sharedSecrets,
          pendingOffers, connectionState, pendingCandidates, conns, chans,
          hmTasks, sendTasks, nextId, budget, obs>>

maps == <<connections, dataChannels, sharedSecrets, pendingOffers, connectionState,
          pendingCandidates>>

NoEnv == [id |-> <<0, 0>>, type |-> "none", sender |-> 0, payload |-> Str("")]
NoCall == [op |-> "none", at |-> "-", node |-> "-", peer |-> "-", res |-> "-", open |-> FALSE]
NoSent == [chan |-> 0, env |-> NoEnv, keSent |-> 0, callSecret |-> NoSecret,
           useSecret |-> NoSecret, data |-> ""]
NoDispatch == [chan |-> 0, node |-> "-", peer |-> "-", type |-> "none",
               keBefore |-> FALSE, hasSecret |-> FALSE]
NoDelivered == [node |-> "-", peer |-> "-", env |-> NoEnv, orig |-> NoEnv,
                secret |-> NoSecret]
NoCrypto == [op |-> "none", fallback |-> FALSE, available |-> TRUE, a |-> 0, b |-> 0,
             ab |-> NoSecret, ba |-> NoSecret, data |-> "", how |-> "none",
             decrypted |-> Str(""), fn |-> "none", rng |-> 0, issued |-> <<>>,
             keyPair |-> [publicKey |-> [usage |-> "public", k |-> 0],
                          privateKey |-> [usage |-> "private", k |-> 0]],
             frame |-> [json |-> NoEnv]]
\* the hook useDirectP2PChat as mounted: p2pServiceRef.current is null, no
\* service has been constructed, none of its calls is running
NoHook == [ref |-> "-", created |-> {}, calls |-> <<>>]
NoObs == [call |-> NoCall, sent |-> NoSent, dispatch |-> NoDispatch,
          delivered |-> NoDelivered, cbs |-> {}, crypto |-> NoCrypto, hook |-> NoHook]

\* obs.call of the step in which an operation is called: res is what it
\* returns or throws in that step, "pending" when it suspends at an await
Call(op, n, p, res, open) ==
  [op |-> op, at |-> "call", node |-> n, peer |-> p, res |-> res, open |-> open]

\* obs.call of the step in which a suspended operation settles
Return(op, n, p, res, open) ==
  [op |-> op, at |-> "return", node |-> n, peer |-> p, res |-> res, open |-> open]

EmptyMap(v) == [n \in Nodes |-> [p \in Peers |-> v]]

\* The environment of a run: at most conns connection objects, keys key
\* pairs, sends application sends, cands remote candidates and faults
\* disturbances; disconnects counts the disconnect() calls made.
Budget(conns_, keys, sends, cands, faults) ==
  [keys |-> 0, sends |-> 0, cands |-> 0, faults |-> 0, disconnects |-> 0,
   max |-> [conns |-> conns_, keys |-> keys, sends |-> sends, cands |-> cands,
            faults |-> faults, fallback |-> FALSE, stun |-> FALSE, labels |-> {}]]

\* the application of the services ns names a session by any address, not
\* only by that of the service at the other end
WithLabels(b, ns) == [b EXCEPT !.max.labels = ns]

\* the build has the diffieHellman revision with the fallback
WithFallback(b) == [b EXCEPT !.max.fallback = TRUE]

\* the build has the DirectP2PService revision with STUN servers
WithStun(b) == [b EXCEPT !.max.stun = TRUE]

\* the services as constructed, in the environment b
InitWith(b) ==
  /\ initialized = [n \in Nodes |-> FALSE]
  /\ dhKeyPair = [n \in Nodes |-> 0]
  /\ userId = [n \in Nodes |-> 0]
  /\ connections = EmptyMap(0)
  /\ dataChannels = EmptyMap(0)
  /\ sharedSecrets = EmptyMap(NoSecret)
  /\ pendingOffers = EmptyMap(0)
  /\ connectionState = EmptyMap("none")
  /\ pendingCandidates = EmptyMap(<<>>)
  /\ conns = <<>>
  /\ chans = <<>>
  /\ hmTasks = {}
  /\ sendTasks = {}
  /\ nextId = [n \in Nodes |-> 1]
  /\ budget = b
  /\ obs = NoObs

Init == InitWith(Budget(MaxConns, MaxKeys, MaxSends, MaxCands, MaxFaults))

\* ----------------------------------------------------------------- queries
IsOpen(j) == j # 0 /\ chans[j].readyState = "open"
isConnectedTo_registered(n, p) == dataChannels[n][p] # 0
isConnectedTo(n, p) == dataChannels[n][p] # 0 /\ chans[dataChannels[n][p]].readyState = "open"
getConnectedPeers(n) == {p \in Peers : dataChannels[n][p] # 0 /\ chans[dataChannels[n][p]].readyState = "open"}
isInitialized(n) == initialized[n]

\* What disturbs a session is counted together: a platform failure, a call
\* that is rejected, a disconnect().
CanFault == budget.faults < budget.max.faults
Fault == [budget EXCEPT !.faults = @ + 1]

\* -------------------------------------------------------------- initialize
\* generateDHKeyPair is awaited before any field is written; the three
\* assignments after it run in one turn.
Initialize(n) ==
  /\ UNCHANGED <<maps, conns, chans, hmTasks, sendTasks, nextId>>
  /\ \/ /\ budget.keys < budget.max.keys
        /\ dhKeyPair' = [dhKeyPair EXCEPT ![n] = budget.keys + 1]
        /\ userId' = [userId EXCEPT ![n] = budget.keys + 1]
        /\ initialized' = [initialized EXCEPT ![n] = TRUE]
        /\ budget' = [budget EXCEPT !.keys = @ + 1]
        /\ obs' = [NoObs EXCEPT !.call = Call("initialize", n, "-", "ok", FALSE)]
     \/ /\ CanFault
        /\ budget' = Fault
        /\ obs' = [NoObs EXCEPT !.call = Call("initialize", n, "-", "throw", FALSE)]
        /\ UNCHANGED <<dhKeyPair, userId, initialized>>

\* ------------------------------------------------------- native objects
\* RTCPeerConnection: pc is the position of the connectToPeer/handlePeerOffer
\* call that created it, ans the position of a handlePeerAnswer call on it,
\* remote the connection whose description it was given, dc the channel it
\* created or received.  cands are the remote candidates applied to it, chain
\* those queued behind a setRemoteDescription that has not resolved, replay
\* the buffered candidates handlePeerAnswer has still to hand over.
peerConnectionConfig == [iceServers |-> <<>>]
iceServers == <<[urls |-> "stun:stun.l.google.com:19302"],
                [urls |-> "stun:stun1.l.google.com:19302"],
                [urls |-> "stun:stun2.l.google.com:19302"]>>

\* the configuration new RTCPeerConnection is given
Configuration ==
  IF budget.max.stun THEN [iceServers |-> iceServers] ELSE peerConnectionConfig

NewConn(n, p, role, pc, remote, dc) ==
  [owner |-> n, peer |-> p, role |-> role, pc |-> pc, ans |-> "none", remote |-> remote,
   cstate |-> "new", sig |-> "stable", dc |-> dc, cands |-> <<>>, chain |-> <<>>,
   replay |-> <<>>, config |-> Configuration]

NoEx == [pc |-> "none", key |-> 0]

\* RTCDataChannel: opened says the open event has been dispatched, outq holds
\* the frames sent on it and not yet dispatched at the other end, ex is the
\* exchangeKeys call started by its open event; keSent and keRecv record the
\* KEY_EXCHANGE frames placed on it and dispatched from it.
NewChan(n, p, i, readyState, remote) ==
  [owner |-> n, peer |-> p, conn |-> i, readyState |-> readyState, opened |-> FALSE,
   remote |-> remote, outq |-> <<>>, ex |-> NoEx, keSent |-> 0, keRecv |-> FALSE]

Cb(name, n, p) == [cb |-> name, node |-> n, peer |-> p]

Closed(i) == conns[i].cstate = "closed"

\* both descriptions are applied at both ends and the two connections were
\* given each other's descriptions
Linked(i) ==
  LET r == conns[i].remote
  IN /\ r # 0
     /\ conns[r].remote = i
     /\ ~Closed(i) /\ ~Closed(r)
     /\ conns[i].sig = "stable" /\ conns[r].sig = "stable"
     /\ conns[i].cstate # "failed" /\ conns[r].cstate # "failed"

\* peerId is the address the application gives: that of the other service,
\* or any address when the application names its sessions freely
Label(n, p) == p # n \/ n \in budget.max.labels

\* ----------------------------------------------------------- connectToPeer
ConnectToPeer(n, p) ==
  /\ Label(n, p)
  /\ UNCHANGED <<initialized, dhKeyPair, userId, sharedSecrets, pendingOffers,
                 pendingCandidates, hmTasks, sendTasks, nextId>>
  /\ IF ~initialized[n]
     THEN /\ CanFault
          /\ budget' = Fault
          /\ obs' = [NoObs EXCEPT !.call = Call("connectToPeer", n, p, "NotInitialized", FALSE)]
          /\ UNCHANGED <<connections, dataChannels, connectionState, conns, chans>>
     ELSE /\ Len(conns) < budget.max.conns
          /\ UNCHANGED budget
          /\ conns' = Append(conns, NewConn(n, p, "offerer", "createOffer", 0, Len(chans) + 1))
          /\ chans' = Append(chans, NewChan(n, p, Len(conns) + 1, "connecting", 0))
          /\ connections' = [connections EXCEPT ![n][p] = Len(conns) + 1]
          /\ dataChannels' = [dataChannels EXCEPT ![n][p] = Len(chans) + 1]
          /\ connectionState' = [connectionState EXCEPT ![n][p] = "connecting"]
          /\ obs' = [NoObs EXCEPT !.call = Call("connectToPeer", n, p, "pending", FALSE)]

\* the catch block of connectToPeer and handlePeerOffer: onError, then rethrow
OpFailed(i, op) ==
  /\ CanFault
  /\ budget' = Fault
  /\ conns' = [conns EXCEPT ![i].pc = "failed"]
  /\ obs' = [NoObs EXCEPT !.call = Return(op, conns[i].owner, conns[i].peer, "throw", FALSE),
                          !.cbs = {Cb("onError", conns[i].owner, conns[i].peer)}]

\* await peerConnection.createOffer()
CreateOfferDone(i) ==
  /\ i \in DOMAIN conns /\ conns[i].pc = "createOffer" /\ ~Closed(i)
  /\ UNCHANGED <<initialized, dhKeyPair, userId, maps, chans, hmTasks, sendTasks, nextId>>
  /\ \/ /\ conns' = [conns EXCEPT ![i].pc = "setLocalOffer"]
        /\ obs' = NoObs
        /\ UNCHANGED budget
     \/ OpFailed(i, "connectToPeer")

\* await peerConnection.setLocalDescription(offer); pendingOffers.set
SetLocalOfferDone(i) ==
  /\ i \in DOMAIN conns /\ conns[i].pc = "setLocalOffer" /\ ~Closed(i)
  /\ UNCHANGED <<initialized, dhKeyPair, userId, connections, dataChannels, sharedSecrets,
                 connectionState, pendingCandidates, chans, hmTasks, sendTasks, nextId>>
  /\ \/ /\ conns' = [conns EXCEPT ![i].pc = "done", ![i].sig = "have-local-offer"]
        /\ pendingOffers' = [pendingOffers EXCEPT ![conns[i].owner][conns[i].peer] = i]
        /\ obs' = [NoObs EXCEPT !.call = Return("connectToPeer", conns[i].owner, conns[i].peer, "ok", FALSE)]
        /\ UNCHANGED budget
     \/ /\ OpFailed(i, "connectToPeer")
        /\ UNCHANGED pendingOffers

\* --------------------------------------------------------- handlePeerOffer
\* An offer is named by the connection that created it.
Offers == {o \in DOMAIN conns : conns[o].role = "offerer" /\ conns[o].pc = "done"}

HandlePeerOffer(n, p, o) ==
  /\ Label(n, p)
  /\ o \in Offers /\ conns[o].owner # n
  /\ Len(conns) < budget.max.conns
  /\ conns' = Append(conns, NewConn(n, p, "answerer", "setRemoteOffer", o, 0))
  /\ connections' = [connections EXCEPT ![n][p] = Len(conns) + 1]
  /\ connectionState' = [connectionState EXCEPT ![n][p] = "connecting"]
  /\ obs' = [NoObs EXCEPT !.call = Call("handlePeerOffer", n, p, "pending", FALSE)]
  /\ UNCHANGED <<initialized, dhKeyPair, userId, dataChannels, sharedSecrets, pendingOffers,
                 pendingCandidates, chans, hmTasks, sendTasks, nextId, budget>>

\* await peerConnection.setRemoteDescription(offer)
SetRemoteOfferDone(i) ==
  /\ i \in DOMAIN conns /\ conns[i].pc = "setRemoteOffer" /\ ~Closed(i)
  /\ UNCHANGED <<initialized, dhKeyPair, userId, maps, chans, hmTasks, sendTasks, nextId>>
  /\ \/ /\ conns' = [conns EXCEPT ![i].pc = "createAnswer", ![i].sig = "have-remote-offer",
                                  ![i].cands = @ \o conns[i].chain, ![i].chain = <<>>]
        /\ obs' = NoObs
        /\ UNCHANGED budget
     \/ OpFailed(i, "handlePeerOffer")

\* await peerConnection.createAnswer()
CreateAnswerDone(i) ==
  /\ i \in DOMAIN conns /\ conns[i].pc = "createAnswer" /\ ~Closed(i)
  /\ UNCHANGED <<initialized, dhKeyPair, userId, maps, chans, hmTasks, sendTasks, nextId>>
  /\ \/ /\ conns' = [conns EXCEPT ![i].pc = "setLocalAnswer"]
        /\ obs' = NoObs
        /\ UNCHANGED budget
     \/ OpFailed(i, "handlePeerOffer")

\* a handler that marks every connecting peer of the service
SignalingStable_allPeers(i) ==
  [connectionState EXCEPT ![conns[i].owner] =
     [p \in Peers |-> IF connectionState[conns[i].owner][p] = "connecting"
                      THEN "connected" ELSE connectionState[conns[i].owner][p]]]

\* onsignalingstatechange with signalingState 'stable'
SignalingStable(i) ==
  IF connectionState[conns[i].owner][conns[i].peer] = "connecting"
  THEN [connectionState EXCEPT ![conns[i].owner][conns[i].peer] = "connected"]
  ELSE connectionState

\* await peerConnection.setLocalDescription(answer); return answer
SetLocalAnswerDone(i) ==
  /\ i \in DOMAIN conns /\ conns[i].pc = "setLocalAnswer" /\ ~Closed(i)
  /\ UNCHANGED <<initialized, dhKeyPair, userId, connections, dataChannels, sharedSecrets,
                 pendingOffers, pendingCandidates, chans, hmTasks, sendTasks, nextId>>
  /\ \/ /\ conns' = [conns EXCEPT ![i].pc = "done", ![i].sig = "stable"]
        /\ connectionState' = SignalingStable(i)
        /\ obs' = [NoObs EXCEPT !.call = Return("handlePeerOffer", conns[i].owner, conns[i].peer, "ok", FALSE)]
        /\ UNCHANGED budget
     \/ /\ OpFailed(i, "handlePeerOffer")
        /\ UNCHANGED connectionState

\* -------------------------------------------------------- handlePeerAnswer
\* An answer is named by the connection that created it.  The application
\* may pass any answer, also one that was not made for its offer.
Answers == {a \in DOMAIN conns : conns[a].role = "answerer" /\ conns[a].pc = "done"}

HandlePeerAnswer(n, p, a) ==
  /\ Label(n, p)
  /\ a \in Answers
  /\ UNCHANGED <<initialized, dhKeyPair, userId, maps, chans, hmTasks, sendTasks, nextId>>
  /\ LET i == connections[n][p]
     IN IF i = 0
        THEN /\ CanFault
             /\ budget' = Fault
             /\ obs' = [NoObs EXCEPT !.call = Call("handlePeerAnswer", n, p, "UnknownPeer", FALSE)]
             /\ UNCHANGED conns
        ELSE IF Closed(i) \/ conns[i].sig # "have-local-offer" \/ conns[a].remote # i
        \* setRemoteDescription rejects; the catch block reports and swallows
        THEN /\ conns[i].ans # "setRemote"
             /\ CanFault
             /\ budget' = Fault
             /\ obs' = [NoObs EXCEPT !.call = Call("handlePeerAnswer", n, p, "ok", FALSE),
                                     !.cbs = {Cb("onError", n, p)}]
             /\ UNCHANGED conns
        ELSE /\ conns[i].ans \in {"none", "failed"}
             /\ conns' = [conns EXCEPT ![i].ans = "setRemote", ![i].remote = a]
             /\ obs' = [NoObs EXCEPT !.call = Call("handlePeerAnswer", n, p, "pending", FALSE)]
             /\ UNCHANGED budget

\* await peerConnection.setRemoteDescription(answer); connectionState.set.
\* The revision with STUN servers then hands the candidates buffered for the
\* peer to the connection, awaiting each: the first call is made here, behind
\* the candidates that were queued on the connection meanwhile.
SetRemoteAnswerDone(i) ==
  /\ i \in DOMAIN conns /\ conns[i].ans = "setRemote" /\ ~Closed(i)
  /\ UNCHANGED <<initialized, dhKeyPair, userId, connections, dataChannels, sharedSecrets,
                 pendingOffers, pendingCandidates, chans, hmTasks, sendTasks, nextId>>
  /\ \/ /\ conns' = [conns EXCEPT
                       ![i].sig = "stable",
                       ![i].cands = @ \o conns[i].chain \o
                                    (IF pendingCandidates[conns[i].owner][conns[i].peer] = <<>>
                                     THEN <<>>
                                     ELSE <<Head(pendingCandidates[conns[i].owner][conns[i].peer])>>),
                       ![i].chain = <<>>,
                       ![i].replay = IF pendingCandidates[conns[i].owner][conns[i].peer] = <<>>
                                     THEN <<>>
                                     ELSE Tail(pendingCandidates[conns[i].owner][conns[i].peer]),
                       ![i].ans = IF pendingCandidates[conns[i].owner][conns[i].peer] = <<>>
                                  THEN "done" ELSE "replay"]
        /\ connectionState' = [connectionState EXCEPT ![conns[i].owner][conns[i].peer] = "connected"]
        /\ obs' = IF pendingCandidates[conns[i].owner][conns[i].peer] = <<>>
                  THEN [NoObs EXCEPT !.call = Return("handlePeerAnswer", conns[i].owner,
                                                     conns[i].peer, "ok", FALSE)]
                  ELSE NoObs
        /\ UNCHANGED budget
     \/ /\ CanFault
        /\ budget' = Fault
        /\ conns' = [conns EXCEPT ![i].ans = "failed", ![i].remote = 0]
        /\ obs' = [NoObs EXCEPT !.call = Return("handlePeerAnswer", conns[i].owner, conns[i].peer, "ok", FALSE),
                                !.cbs = {Cb("onError", conns[i].owner, conns[i].peer)}]
        /\ UNCHANGED connectionState

\* handlePeerAnswer after await peerConnection.addIceCandidate(candidate) in
\* its loop: the next buffered candidate, or pendingCandidates.delete
ReplayDone(i) ==
  /\ i \in DOMAIN conns /\ conns[i].ans = "replay" /\ ~Closed(i)
  /\ UNCHANGED <<initialized, dhKeyPair, userId, connections, dataChannels, sharedSecrets,
                 pendingOffers, connectionState, chans, hmTasks, sendTasks, nextId, budget>>
  /\ IF conns[i].replay # <<>>
     THEN /\ conns' = [conns EXCEPT ![i].cands = Append(@, Head(conns[i].replay)),
                                    ![i].replay = Tail(@)]
          /\ obs' = NoObs
          /\ UNCHANGED pendingCandidates
     ELSE /\ conns' = [conns EXCEPT ![i].ans = "done"]
          /\ pendingCandidates' = [pendingCandidates EXCEPT ![conns[i].owner][conns[i].peer] = <<>>]
          /\ obs' = [NoObs EXCEPT !.call = Return("handlePeerAnswer", conns[i].owner,
                                                  conns[i].peer, "ok", FALSE)]

\* ------------------------------------------ setupConnectionStateMonitoring
\* onconnectionstatechange with connectionState 'connected'
TransportConnected(i) ==
  /\ i \in DOMAIN conns /\ Linked(i) /\ conns[i].cstate \in {"new", "disconnected"}
  /\ conns' = [conns EXCEPT ![i].cstate = "connected"]
  /\ connectionState' = [connectionState EXCEPT ![conns[i].owner][conns[i].peer] = "connected"]
  /\ obs' = [NoObs EXCEPT !.cbs = {Cb("onConnection", conns[i].owner, conns[i].peer)}]
  /\ UNCHANGED <<initialized, dhKeyPair, userId, connections, dataChannels, sharedSecrets,
                 pendingOffers, pendingCandidates, chans, hmTasks, sendTasks, nextId, budget>>

\* the other end is gone
RemoteGone(i) ==
  conns[i].remote # 0 /\ conns[conns[i].remote].cstate \in {"closed", "failed"}

\* onconnectionstatechange with connectionState 'disconnected' or 'failed'
TransportLost(i, s) ==
  /\ i \in DOMAIN conns /\ s \in {"disconnected", "failed"}
  /\ conns[i].remote # 0 /\ conns[i].sig = "stable"
  /\ \/ conns[i].cstate = "connected"
     \/ conns[i].cstate \in {"new", "disconnected"} /\ s = "failed"
  /\ \/ RemoteGone(i) /\ UNCHANGED budget
     \/ ~RemoteGone(i) /\ CanFault /\ budget' = Fault
  /\ conns' = [conns EXCEPT ![i].cstate = s]
  /\ connectionState' = [connectionState EXCEPT ![conns[i].owner][conns[i].peer] = "disconnected"]
  /\ obs' = [NoObs EXCEPT !.cbs = {Cb("onDisconnection", conns[i].owner, conns[i].peer)}]
  /\ UNCHANGED <<initialized, dhKeyPair, userId, connections, dataChannels, sharedSecrets,
                 pendingOffers, pendingCandidates, chans, hmTasks, sendTasks, nextId>>

\* -------------------------------------------------------------- sendToPeer
\* a send that does not look at readyState
sendToPeer_anyState(n, p, message) ==
  IF dataChannels[n][p] # 0
  THEN [chans EXCEPT ![dataChannels[n][p]].outq = Append(@, Stringify(message))]
  ELSE chans

\* The channel pool after sendToPeer(peerId, message): the frame goes on the
\* channel registered for the peer when that channel is open.
sendToPeer(n, p, message) ==
  IF dataChannels[n][p] # 0 /\ chans[dataChannels[n][p]].readyState = "open"
  THEN [chans EXCEPT ![dataChannels[n][p]].outq = Append(@, Stringify(message)),
                     ![dataChannels[n][p]].keSent =
                        IF message.type = "KEY_EXCHANGE" THEN @ + 1 ELSE @]
  ELSE chans

\* the boolean sendToPeer returns
sendToPeerResult(n, p) ==
  IF dataChannels[n][p] # 0 /\ chans[dataChannels[n][p]].readyState = "open"
  THEN "true" ELSE "false"

\* what a step that ran sendToPeer leaves in obs.sent
SentObs(n, p, message, callSecret, useSecret, data) ==
  IF dataChannels[n][p] # 0 /\ sendToPeer(n, p, message) # chans
  THEN [chan |-> dataChannels[n][p], env |-> message,
        keSent |-> chans[dataChannels[n][p]].keSent,
        callSecret |-> callSecret, useSecret |-> useSecret, data |-> data]
  ELSE NoSent

Envelope(id, type, sender, payload) ==
  [id |-> <<sender, id>>, type |-> type, sender |-> sender, payload |-> payload]

\* --------------------------------------------------- setupDataChannelEvents
\* ondatachannel on a connection created by handlePeerOffer: the channel is
\* handed over in state open, its open event follows.
DataChannelEvent(i) ==
  /\ i \in DOMAIN conns /\ conns[i].role = "answerer" /\ conns[i].dc = 0
  /\ conns[i].cstate = "connected" /\ Linked(i)
  /\ chans[conns[conns[i].remote].dc].readyState \in {"connecting", "open"}
  /\ chans[conns[conns[i].remote].dc].remote = 0
  /\ chans' = [Append(chans, NewChan(conns[i].owner, conns[i].peer, i, "open",
                                     conns[conns[i].remote].dc))
                 EXCEPT ![conns[conns[i].remote].dc].remote = Len(chans) + 1]
  /\ conns' = [conns EXCEPT ![i].dc = Len(chans) + 1]
  /\ dataChannels' = [dataChannels EXCEPT ![conns[i].owner][conns[i].peer] = Len(chans) + 1]
  /\ obs' = NoObs
  /\ UNCHANGED <<initialized, dhKeyPair, userId, connections, sharedSecrets, pendingOffers,
                 connectionState, pendingCandidates, hmTasks, sendTasks, nextId, budget>>

\* dataChannel.onopen: onConnection, connectionState.set, exchangeKeys up to its
\* await (exportDHPublicKey is called with the key pair held now)
ChannelOpen(j) ==
  /\ j \in DOMAIN chans /\ ~chans[j].opened
  /\ \/ chans[j].readyState = "open"
     \/ /\ chans[j].readyState = "connecting"
        /\ conns[chans[j].conn].cstate = "connected" /\ Linked(chans[j].conn)
  /\ chans' = [chans EXCEPT ![j].readyState = "open", ![j].opened = TRUE,
                            ![j].ex = IF dhKeyPair[chans[j].owner] = 0
                                      THEN [pc |-> "failed", key |-> 0]
                                      ELSE [pc |-> "export", key |-> dhKeyPair[chans[j].owner]]]
  /\ connectionState' = [connectionState EXCEPT ![chans[j].owner][chans[j].peer] = "connected"]
  /\ obs' = [NoObs EXCEPT !.cbs = {Cb("onConnection", chans[j].owner, chans[j].peer)} \cup
                                  (IF dhKeyPair[chans[j].owner] = 0
                                   THEN {Cb("onError", chans[j].owner, chans[j].peer)} ELSE {})]
  /\ UNCHANGED <<initialized, dhKeyPair, userId, connections, dataChannels, sharedSecrets,
                 pendingOffers, pendingCandidates, conns, hmTasks, sendTasks, nextId, budget>>

\* the KEY_EXCHANGE envelope exchangeKeys builds once the export has resolved
KeyExchangeMessage(n, id, key) ==
  Envelope(id, "KEY_EXCHANGE", userId[n], [publicKey |-> exportDHPublicKey(PublicKey(key))])

\* exchangeKeys after await exportDHPublicKey: build the envelope, sendToPeer
ExchangeKeysDone(j) ==
  /\ j \in DOMAIN chans /\ chans[j].ex.pc = "export"
  /\ UNCHANGED <<initialized, dhKeyPair, userId, maps, conns, hmTasks, sendTasks>>
  /\ \/ /\ chans' = [sendToPeer(chans[j].owner, chans[j].peer,
                                KeyExchangeMessage(chans[j].owner, nextId[chans[j].owner], chans[j].ex.key))
                       EXCEPT ![j].ex.pc = "done"]
        /\ obs' = [NoObs EXCEPT !.sent =
                     SentObs(chans[j].owner, chans[j].peer,
                             KeyExchangeMessage(chans[j].owner, nextId[chans[j].owner], chans[j].ex.key),
                             NoSecret, NoSecret, "")]
        /\ nextId' = [nextId EXCEPT ![chans[j].owner] = @ + 1]
        /\ UNCHANGED budget
     \/ /\ CanFault
        /\ budget' = Fault
        /\ chans' = [chans EXCEPT ![j].ex.pc = "failed"]
        /\ obs' = [NoObs EXCEPT !.cbs = {Cb("onError", chans[j].owner, chans[j].peer)}]
        /\ UNCHANGED nextId

\* the channel is being closed locally, or its transport or its other end is gone
Closing(j) ==
  \/ chans[j].readyState = "closing"
  \/ conns[chans[j].conn].cstate \in {"closed", "failed"}
  \/ RemoteGone(chans[j].conn)
  \/ chans[j].remote # 0 /\ chans[chans[j].remote].readyState \in {"closing", "closed"}

\* dataChannel.onclose
ChannelClose(j) ==
  /\ j \in DOMAIN chans /\ chans[j].readyState # "closed" /\ Closing(j)
  /\ chans' = [chans EXCEPT ![j].readyState = "closed"]
  /\ connectionState' = [connectionState EXCEPT ![chans[j].owner][chans[j].peer] = "disconnected"]
  /\ obs' = [NoObs EXCEPT !.cbs = {Cb("onDisconnection", chans[j].owner, chans[j].peer)}]
  /\ UNCHANGED <<initialized, dhKeyPair, userId, connections, dataChannels, sharedSecrets,
                 pendingOffers, pendingCandidates, conns, hmTasks, sendTasks, nextId, budget>>

\* dataChannel.onerror
ChannelError(j) ==
  /\ j \in DOMAIN chans /\ chans[j].readyState = "open"
  /\ CanFault
  /\ budget' = Fault
  /\ obs' = [NoObs EXCEPT !.cbs = {Cb("onError", chans[j].owner, chans[j].peer)}]
  /\ UNCHANGED <<initialized, dhKeyPair, userId, maps, conns, chans, hmTasks, sendTasks, nextId>>

\* ----------------------------------------------------------- handleMessage
\* a handleMessage that never decrypts
HandleMessageAwait_passThrough(n, p, message) ==
  IF message.type = "KEY_EXCHANGE" /\ dhKeyPair[n] # 0 THEN "import" ELSE "none"

\* Where handleMessage first suspends: at importDHPublicKey, at
\* decryptWithSharedSecret, or nowhere (it reaches onMessage in the same turn).
HandleMessageAwait(n, p, message) ==
  IF message.type = "KEY_EXCHANGE"
  THEN IF dhKeyPair[n] # 0 THEN "import" ELSE "none"
  ELSE IF message.type = "TEXT"
  THEN IF IsEncryptedData(message.payload) /\ sharedSecrets[n][p] # NoSecret
       THEN "decrypt" ELSE "none"
  ELSE IF message.type \in {"IMAGE", "FILE"}
  THEN IF IsEncryptedData(message.payload.data) /\ sharedSecrets[n][p] # NoSecret
       THEN "decrypt" ELSE "none"
  ELSE "none"

HmTask(n, p, message, pc, secret, priv, pub) ==
  [node |-> n, peer |-> p, msg |-> message, pc |-> pc, secret |-> secret,
   priv |-> priv, pub |-> pub]

Delivered(n, p, env, orig, secret) ==
  [node |-> n, peer |-> p, env |-> env, orig |-> orig, secret |-> secret]

\* dataChannel.onmessage: JSON.parse, then handleMessage up to its first await
ChannelMessage(j) ==
  /\ j \in DOMAIN chans /\ chans[j].opened /\ chans[j].readyState = "open"
  /\ chans[j].remote # 0 /\ chans[chans[j].remote].outq # <<>>
  /\ LET n == chans[j].owner
         p == chans[j].peer
         message == Parse(Head(chans[chans[j].remote].outq))
         pc == HandleMessageAwait(n, p, message)
     IN /\ chans' = [chans EXCEPT ![chans[j].remote].outq = Tail(@),
                                  ![j].keRecv = @ \/ message.type = "KEY_EXCHANGE"]
        /\ hmTasks' = IF pc = "none" THEN hmTasks
                      ELSE hmTasks \cup {HmTask(n, p, message, pc, sharedSecrets[n][p], 0, 0)}
        /\ obs' = [NoObs EXCEPT
                     !.dispatch = [chan |-> j, node |-> n, peer |-> p, type |-> message.type,
                                   keBefore |-> chans[j].keRecv,
                                   hasSecret |-> sharedSecrets[n][p] # NoSecret],
                     !.delivered = IF pc = "none"
                                   THEN Delivered(n, p, message, message, sharedSecrets[n][p])
                                   ELSE NoDelivered,
                     !.cbs = IF pc = "none" THEN {Cb("onMessage", n, p)} ELSE {}]
  /\ UNCHANGED <<initialized, dhKeyPair, userId, maps, conns, sendTasks, nextId, budget>>

\* what JSON.parse makes of a frame: the envelope, or a SyntaxError
SyntaxError == [error |-> "SyntaxError"]
JSONparse(data) == IF "json" \in DOMAIN data THEN data.json ELSE SyntaxError

\* dataChannel.onmessage for a frame the peer's software made (it is not taken
\* from the queue of a service of this program): JSON.parse in the try block,
\* whose catch logs; then handleMessage up to its first await
ChannelData(j, data) ==
  /\ j \in DOMAIN chans /\ chans[j].opened /\ chans[j].readyState = "open"
  /\ LET n == chans[j].owner
         p == chans[j].peer
         message == JSONparse(data)
     IN IF message = SyntaxError
        THEN /\ obs' = [NoObs EXCEPT
                          !.dispatch = [chan |-> j, node |-> n, peer |-> p, type |-> "SyntaxError",
                                        keBefore |-> chans[j].keRecv,
                                        hasSecret |-> sharedSecrets[n][p] # NoSecret]]
             /\ UNCHANGED <<chans, hmTasks>>
        ELSE LET pc == HandleMessageAwait(n, p, message)
             IN /\ chans' = [chans EXCEPT ![j].keRecv = @ \/ message.type = "KEY_EXCHANGE"]
                /\ hmTasks' = IF pc = "none" THEN hmTasks
                              ELSE hmTasks \cup {HmTask(n, p, message, pc, sharedSecrets[n][p], 0, 0)}
                /\ obs' = [NoObs EXCEPT
                             !.dispatch = [chan |-> j, node |-> n, peer |-> p, type |-> message.type,
                                           keBefore |-> chans[j].keRecv,
                                           hasSecret |-> sharedSecrets[n][p] # NoSecret],
                             !.delivered = IF pc = "none"
                                           THEN Delivered(n, p, message, message, sharedSecrets[n][p])
                                           ELSE NoDelivered,
                             !.cbs = IF pc = "none" THEN {Cb("onMessage", n, p)} ELSE {}]
  /\ UNCHANGED <<initialized, dhKeyPair, userId, maps, conns, sendTasks, nextId, budget>>

\* handleMessage after await importDHPublicKey: deriveSharedSecret is called
\* with the private key held now
ImportDone(t) ==
  /\ t \in hmTasks /\ t.pc = "import"
  /\ UNCHANGED <<initialized, dhKeyPair, userId, maps, conns, chans, sendTasks, nextId>>
  /\ \/ /\ importDHPublicKey(t.msg.payload.publicKey) # MalformedKey
        /\ hmTasks' = (hmTasks \ {t}) \cup
                      {[t EXCEPT !.pc = "derive", !.priv = dhKeyPair[t.node],
                                 !.pub = importDHPublicKey(t.msg.payload.publicKey).k]}
        /\ obs' = NoObs
        /\ UNCHANGED budget
     \/ /\ \/ importDHPublicKey(t.msg.payload.publicKey) = MalformedKey /\ UNCHANGED budget
           \/ CanFault /\ budget' = Fault
        /\ hmTasks' = hmTasks \ {t}
        /\ obs' = [NoObs EXCEPT !.cbs = {Cb("onError", t.node, t.peer)}]

\* handleMessage after await deriveSharedSecret: sharedSecrets.set, then the
\* onMessage call that ends handleMessage
DeriveDone(t) ==
  /\ t \in hmTasks /\ t.pc = "derive"
  /\ UNCHANGED <<initialized, dhKeyPair, userId, connections, dataChannels, pendingOffers,
                 connectionState, pendingCandidates, conns, chans, sendTasks, nextId>>
  /\ hmTasks' = hmTasks \ {t}
  /\ \/ /\ sharedSecrets' = [sharedSecrets EXCEPT ![t.node][t.peer] =
                               deriveSharedSecret(PrivateKey(t.priv), PublicKey(t.pub))]
        /\ obs' = [NoObs EXCEPT !.delivered = Delivered(t.node, t.peer, t.msg, t.msg, t.secret),
                                !.cbs = {Cb("onMessage", t.node, t.peer)}]
        /\ UNCHANGED budget
     \/ /\ CanFault
        /\ budget' = Fault
        /\ obs' = [NoObs EXCEPT !.cbs = {Cb("onError", t.node, t.peer)}]
        /\ UNCHANGED sharedSecrets

\* decryptWithSharedSecret of the build, on a platform with Web Crypto
AwaitDecrypt(secret, encryptedData) ==
  IF budget.max.fallback
  THEN decryptWithSharedSecretOrFallback(secret, encryptedData, TRUE)
  ELSE decryptWithSharedSecret(secret, encryptedData)

\* the envelope with its encrypted part replaced by the decrypted text
Decrypted(message, secret) ==
  IF message.type = "TEXT"
  THEN [message EXCEPT !.payload = AwaitDecrypt(secret, message.payload)]
  ELSE [message EXCEPT !.payload.data = AwaitDecrypt(secret, message.payload.data)]

EncryptedPart(message) ==
  IF message.type = "TEXT" THEN message.payload ELSE message.payload.data

\* handleMessage after await decryptWithSharedSecret
DecryptDone(t) ==
  /\ t \in hmTasks /\ t.pc = "decrypt"
  /\ UNCHANGED <<initialized, dhKeyPair, userId, maps, conns, chans, sendTasks, nextId, budget>>
  /\ hmTasks' = hmTasks \ {t}
  /\ IF AwaitDecrypt(t.secret, EncryptedPart(t.msg)) = DecryptionFailed
     THEN obs' = [NoObs EXCEPT !.cbs = {Cb("onError", t.node, t.peer)}]
     ELSE obs' = [NoObs EXCEPT
                    !.delivered = Delivered(t.node, t.peer, Decrypted(t.msg, t.secret), t.msg, t.secret),
                    !.cbs = {Cb("onMessage", t.node, t.peer)}]

\* ------------------------------------------------ sendTextMessage, sendFile
NoFile == [name |-> "", size |-> 0, type |-> "", content |-> ""]

SendTask(id, op, n, p, pc, data, file, secret, callSecret) ==
  [id |-> id, op |-> op, node |-> n, peer |-> p, pc |-> pc, data |-> data, file |-> file,
   secret |-> secret, callSecret |-> callSecret]

TextMessage(n, id, payload) == Envelope(id, "TEXT", userId[n], payload)

FileMessage(n, id, file, data) ==
  Envelope(id, FileType(file), userId[n],
           [name |-> file.name, size |-> file.size, type |-> file.type, data |-> data])

\* sendTextMessage up to its await: without a shared secret it runs to
\* sendToPeer in the same turn
SendTextMessage(n, p, text) ==
  /\ Label(n, p) /\ text \in Texts
  /\ UNCHANGED <<initialized, dhKeyPair, userId, maps, conns, hmTasks>>
  /\ IF ~initialized[n]
     THEN /\ CanFault
          /\ budget' = Fault
          /\ obs' = [NoObs EXCEPT !.call = Call("sendTextMessage", n, p, "NotInitialized",
                                                 isConnectedTo(n, p))]
          /\ UNCHANGED <<chans, sendTasks, nextId>>
     ELSE /\ budget.sends < budget.max.sends
          /\ budget' = [budget EXCEPT !.sends = @ + 1]
          /\ IF sharedSecrets[n][p] # NoSecret
             THEN /\ sendTasks' = sendTasks \cup
                       {SendTask(budget.sends, "sendTextMessage", n, p, "encrypt", text, NoFile,
                                 sharedSecrets[n][p], sharedSecrets[n][p])}
                  /\ obs' = [NoObs EXCEPT !.call = Call("sendTextMessage", n, p, "pending",
                                                         isConnectedTo(n, p))]
                  /\ UNCHANGED <<chans, nextId>>
             ELSE /\ chans' = sendToPeer(n, p, TextMessage(n, nextId[n], Str(text)))
                  /\ nextId' = [nextId EXCEPT ![n] = @ + 1]
                  /\ obs' = [NoObs EXCEPT
                       !.call = Call("sendTextMessage", n, p, sendToPeerResult(n, p),
                                     isConnectedTo(n, p)),
                       !.sent = SentObs(n, p, TextMessage(n, nextId[n], Str(text)),
                                        NoSecret, NoSecret, text)]
                  /\ UNCHANGED sendTasks

\* sendFile up to await fileToBase64
SendFile(n, p, file) ==
  /\ Label(n, p) /\ file \in Files
  /\ UNCHANGED <<initialized, dhKeyPair, userId, maps, conns, chans, hmTasks, nextId>>
  /\ IF ~initialized[n]
     THEN /\ CanFault
          /\ budget' = Fault
          /\ obs' = [NoObs EXCEPT !.call = Call("sendFile", n, p, "NotInitialized",
                                                 isConnectedTo(n, p))]
          /\ UNCHANGED sendTasks
     ELSE /\ budget.sends < budget.max.sends
          /\ budget' = [budget EXCEPT !.sends = @ + 1]
          /\ sendTasks' = sendTasks \cup
               {SendTask(budget.sends, "sendFile", n, p, "read", "", file, NoSecret,
                         sharedSecrets[n][p])}
          /\ obs' = [NoObs EXCEPT !.call = Call("sendFile", n, p, "pending",
                                                 isConnectedTo(n, p))]

\* sendFile after await fileToBase64: the shared secret is looked up now
FileReadDone(t) ==
  /\ t \in sendTasks /\ t.pc = "read"
  /\ UNCHANGED <<initialized, dhKeyPair, userId, maps, conns, hmTasks>>
  /\ \/ /\ sharedSecrets[t.node][t.peer] # NoSecret
        /\ sendTasks' = (sendTasks \ {t}) \cup
             {[t EXCEPT !.pc = "encrypt", !.data = fileToBase64(t.file),
                        !.secret = sharedSecrets[t.node][t.peer]]}
        /\ obs' = NoObs
        /\ UNCHANGED <<chans, nextId, budget>>
     \/ /\ sharedSecrets[t.node][t.peer] = NoSecret
        /\ sendTasks' = sendTasks \ {t}
        /\ chans' = sendToPeer(t.node, t.peer,
                               FileMessage(t.node, nextId[t.node], t.file, Str(fileToBase64(t.file))))
        /\ nextId' = [nextId EXCEPT ![t.node] = @ + 1]
        /\ obs' = [NoObs EXCEPT
             !.call = Return("sendFile", t.node, t.peer, sendToPeerResult(t.node, t.peer),
                           isConnectedTo(t.node, t.peer)),
             !.sent = SentObs(t.node, t.peer,
                              FileMessage(t.node, nextId[t.node], t.file, Str(fileToBase64(t.file))),
                              t.callSecret, NoSecret, fileToBase64(t.file))]
        /\ UNCHANGED budget
     \/ /\ CanFault
        /\ budget' = Fault
        /\ sendTasks' = sendTasks \ {t}
        /\ obs' = [NoObs EXCEPT !.call = Return("sendFile", t.node, t.peer, "false",
                                              isConnectedTo(t.node, t.peer))]
        /\ UNCHANGED <<chans, nextId>>

\* an envelope that carries the plain value although a secret is held
EncryptedMessage_plain(t, id, iv) ==
  IF t.op = "sendTextMessage"
  THEN Envelope(id, "TEXT", userId[t.node], Str(t.data))
  ELSE Envelope(id, FileType(t.file), userId[t.node],
                [name |-> t.file.name, size |-> t.file.size, type |-> t.file.type,
                 data |-> Str(t.data)])

\* the envelope a send builds once encryptWithSharedSecret has resolved
EncryptedMessage(t, id, iv) ==
  IF t.op = "sendTextMessage"
  THEN TextMessage(t.node, id, encryptWithSharedSecret(t.secret, t.data, iv))
  ELSE FileMessage(t.node, id, t.file, encryptWithSharedSecret(t.secret, t.data, iv))

\* sendTextMessage / sendFile after await encryptWithSharedSecret
EncryptDone(t) ==
  /\ t \in sendTasks /\ t.pc = "encrypt"
  /\ UNCHANGED <<initialized, dhKeyPair, userId, maps, conns, hmTasks>>
  /\ sendTasks' = sendTasks \ {t}
  /\ \/ /\ \E iv \in 1..NumIV :
             /\ chans' = sendToPeer(t.node, t.peer, EncryptedMessage(t, nextId[t.node], iv))
             /\ obs' = [NoObs EXCEPT
                  !.call = Return(t.op, t.node, t.peer, sendToPeerResult(t.node, t.peer),
                                isConnectedTo(t.node, t.peer)),
                  !.sent = SentObs(t.node, t.peer, EncryptedMessage(t, nextId[t.node], iv),
                                   t.callSecret, t.secret, t.data)]
        /\ nextId' = [nextId EXCEPT ![t.node] = @ + 1]
        /\ UNCHANGED budget
     \/ /\ CanFault
        /\ budget' = Fault
        /\ obs' = [NoObs EXCEPT !.call = Return(t.op, t.node, t.peer, "false",
                                              isConnectedTo(t.node, t.peer))]
        /\ UNCHANGED <<chans, nextId>>

\* -------------------------------------------------------------- disconnect
\* channel.close() on every registered channel, connection.close() on every
\* registered connection (which also closes the channels of that connection),
\* then the maps are cleared; dhKeyPair and userId stay.
Registered(n, map) == {map[n][p] : p \in Peers} \ {0}

Disconnect_keepSecrets(n) ==
  /\ CanFault
  /\ budget' = [Fault EXCEPT !.disconnects = @ + 1]
  /\ chans' = [j \in DOMAIN chans |->
                 IF /\ chans[j].readyState # "closed"
                    /\ \/ j \in Registered(n, dataChannels)
                       \/ chans[j].conn \in Registered(n, connections)
                 THEN [chans[j] EXCEPT !.readyState = "closing"]
                 ELSE chans[j]]
  /\ conns' = [i \in DOMAIN conns |->
                 IF i \in Registered(n, connections)
                 THEN [conns[i] EXCEPT !.cstate = "closed", !.sig = "closed"]
                 ELSE conns[i]]
  /\ connections' = [connections EXCEPT ![n] = [p \in Peers |-> 0]]
  /\ dataChannels' = [dataChannels EXCEPT ![n] = [p \in Peers |-> 0]]
  /\ pendingOffers' = [pendingOffers EXCEPT ![n] = [p \in Peers |-> 0]]
  /\ pendingCandidates' = [pendingCandidates EXCEPT ![n] = [p \in Peers |-> <<>>]]
  /\ connectionState' = [connectionState EXCEPT ![n] = [p \in Peers |-> "none"]]
  /\ initialized' = [initialized EXCEPT ![n] = FALSE]
  /\ obs' = [NoObs EXCEPT !.call = Call("disconnect", n, "-", "ok", FALSE)]
  /\ UNCHANGED <<dhKeyPair, userId, sharedSecrets, hmTasks, sendTasks, nextId>>

Disconnect(n) ==
  /\ CanFault
  /\ budget' = [Fault EXCEPT !.disconnects = @ + 1]
  /\ chans' = [j \in DOMAIN chans |->
                 IF /\ chans[j].readyState # "closed"
                    /\ \/ j \in Registered(n, dataChannels)
                       \/ chans[j].conn \in Registered(n, connections)
                 THEN [chans[j] EXCEPT !.readyState = "closing"]
                 ELSE chans[j]]
  /\ conns' = [i \in DOMAIN conns |->
                 IF i \in Registered(n, connections)
                 THEN [conns[i] EXCEPT !.cstate = "closed", !.sig = "closed"]
                 ELSE conns[i]]
  /\ connections' = [connections EXCEPT ![n] = [p \in Peers |-> 0]]
  /\ dataChannels' = [dataChannels EXCEPT ![n] = [p \in Peers |-> 0]]
  /\ pendingOffers' = [pendingOffers EXCEPT ![n] = [p \in Peers |-> 0]]
  /\ pendingCandidates' = [pendingCandidates EXCEPT ![n] = [p \in Peers |-> <<>>]]
  /\ sharedSecrets' = [sharedSecrets EXCEPT ![n] = [p \in Peers |-> NoSecret]]
  /\ connectionState' = [connectionState EXCEPT ![n] = [p \in Peers |-> "none"]]
  /\ initialized' = [initialized EXCEPT ![n] = FALSE]
  /\ obs' = [NoObs EXCEPT !.call = Call("disconnect", n, "-", "ok", FALSE)]
  /\ UNCHANGED <<dhKeyPair, userId, hmTasks, sendTasks, nextId>>

\* --------------------------------------------------------- addIceCandidate
\* the connection has a remote description
HasRemoteDescription(i) ==
  \/ conns[i].role = "offerer" /\ conns[i].ans \in {"replay", "done"}
  \/ conns[i].role = "answerer" /\ conns[i].pc \in {"createAnswer", "setLocalAnswer", "done"}

\* a setRemoteDescription on the connection has not resolved yet
SettingRemoteDescription(i) ==
  \/ conns[i].role = "offerer" /\ conns[i].ans = "setRemote"
  \/ conns[i].role = "answerer" /\ conns[i].pc = "setRemoteOffer"

\* Without a connection for the peer the candidate is buffered.  Otherwise it
\* is handed to the connection, which works through its calls in the order in
\* which they were made: behind a setRemoteDescription that has not resolved
\* the candidate waits, with a remote description it is applied, and a
\* connection that is closed or has no remote description rejects it.
AddIceCandidate(n, p, candidate) ==
  /\ Label(n, p) /\ candidate \in Candidates
  /\ budget.cands < budget.max.cands /\ candidate = budget.cands + 1
  /\ budget' = [budget EXCEPT !.cands = @ + 1]
  /\ UNCHANGED <<initialized, dhKeyPair, userId, connections, dataChannels, sharedSecrets,
                 pendingOffers, connectionState, chans, hmTasks, sendTasks, nextId>>
  /\ IF connections[n][p] = 0
     THEN /\ pendingCandidates' = [pendingCandidates EXCEPT ![n][p] = Append(@, candidate)]
          /\ obs' = [NoObs EXCEPT !.call = Call("addIceCandidate", n, p, "ok", FALSE)]
          /\ UNCHANGED conns
     ELSE IF ~Closed(connections[n][p]) /\ SettingRemoteDescription(connections[n][p])
     THEN /\ conns' = [conns EXCEPT ![connections[n][p]].chain = Append(@, candidate)]
          /\ obs' = [NoObs EXCEPT !.call = Call("addIceCandidate", n, p, "pending", FALSE)]
          /\ UNCHANGED pendingCandidates
     ELSE IF ~Closed(connections[n][p]) /\ HasRemoteDescription(connections[n][p])
     THEN /\ conns' = [conns EXCEPT ![connections[n][p]].cands = Append(@, candidate)]
          /\ obs' = [NoObs EXCEPT !.call = Call("addIceCandidate", n, p, "ok", FALSE)]
          /\ UNCHANGED pendingCandidates
     ELSE /\ obs' = [NoObs EXCEPT !.call = Call("addIceCandidate", n, p, "ok", FALSE),
                                  !.cbs = {Cb("onError", n, p)}]
          /\ UNCHANGED <<conns, pendingCandidates>>

Next ==
  \/ \E n \in Nodes : Initialize(n)
  \/ \E n \in Nodes, p \in Peers : ConnectToPeer(n, p)
  \/ \E i \in DOMAIN conns : CreateOfferDone(i)
  \/ \E i \in DOMAIN conns : SetLocalOfferDone(i)
  \/ \E n \in Nodes, p \in Peers, o \in DOMAIN conns : HandlePeerOffer(n, p, o)
  \/ \E i \in DOMAIN conns : SetRemoteOfferDone(i)
  \/ \E i \in DOMAIN conns : CreateAnswerDone(i)
  \/ \E i \in DOMAIN conns : SetLocalAnswerDone(i)
  \/ \E n \in Nodes, p \in Peers, a \in DOMAIN conns : HandlePeerAnswer(n, p, a)
  \/ \E i \in DOMAIN conns : SetRemoteAnswerDone(i)
  \/ \E i \in DOMAIN conns : TransportConnected(i)
  \/ \E i \in DOMAIN conns, s \in {"disconnected", "failed"} : TransportLost(i, s)
  \/ \E i \in DOMAIN conns : DataChannelEvent(i)
  \/ \E j \in DOMAIN chans : ChannelOpen(j)
  \/ \E j \in DOMAIN chans : ExchangeKeysDone(j)
  \/ \E j \in DOMAIN chans : ChannelClose(j)
  \/ \E j \in DOMAIN chans : ChannelError(j)
  \/ \E j \in DOMAIN chans : ChannelMessage(j)
  \/ \E t \in hmTasks : ImportDone(t)
  \/ \E t \in hmTasks : DeriveDone(t)
  \/ \E t \in hmTasks : DecryptDone(t)
  \/ \E n \in Nodes, p \in Peers, text \in Texts : SendTextMessage(n, p, text)
  \/ \E n \in Nodes, p \in Peers, file \in Files : SendFile(n, p, file)
  \/ \E t \in sendTasks : FileReadDone(t)
  \/ \E t \in sendTasks : EncryptDone(t)
  \/ \E n \in Nodes : Disconnect(n)

Spec == Init /\ [][Next]_vars

\* ------------------------------------------------ undisturbed sessions
\* The steps the platform takes by itself: promise resolutions and events.
Signaling ==
  \/ \E i \in DOMAIN conns : CreateOfferDone(i)
  \/ \E i \in DOMAIN conns : SetLocalOfferDone(i)
  \/ \E i \in DOMAIN conns : SetRemoteOfferDone(i)
  \/ \E i \in DOMAIN conns : CreateAnswerDone(i)
  \/ \E i \in DOMAIN conns : SetLocalAnswerDone(i)
  \/ \E i \in DOMAIN conns : SetRemoteAnswerDone(i)
  \/ \E i \in DOMAIN conns : TransportConnected(i)
  \/ \E i \in DOMAIN conns : DataChannelEvent(i)
  \/ \E j \in DOMAIN chans : ChannelOpen(j)
  \/ \E j \in DOMAIN chans : ExchangeKeysDone(j)
  \/ \E j \in DOMAIN chans : ChannelMessage(j)
  \/ \E t \in hmTasks : ImportDone(t)
  \/ \E t \in hmTasks : DeriveDone(t)

Messaging ==
  \/ \E t \in hmTasks : DecryptDone(t)
  \/ \E t \in sendTasks : FileReadDone(t)
  \/ \E t \in sendTasks : EncryptDone(t)

\* One session between two services that each call initialize once: one
\* connection object at each service, nothing failing, nobody disconnecting.
InitE2E == InitWith(Budget(Cardinality(Nodes), MaxKeys, MaxSends, 0, 0))

NextE2E ==
  \/ \E n \in Nodes : dhKeyPair[n] = 0 /\ Initialize(n)
  \/ \E n \in Nodes, p \in Peers : ConnectToPeer(n, p)
  \/ \E n \in Nodes, p \in Peers, o \in DOMAIN conns : HandlePeerOffer(n, p, o)
  \/ \E n \in Nodes, p \in Peers, a \in DOMAIN conns : HandlePeerAnswer(n, p, a)
  \/ \E n \in Nodes, p \in Peers, text \in Texts : SendTextMessage(n, p, text)
  \/ \E n \in Nodes, p \in Peers, file \in Files : SendFile(n, p, file)
  \/ Signaling
  \/ Messaging

\* Promise resolutions and event dispatches are tasks of the event loop: a
\* task that stays ready is eventually run.  Calls of the application are
\* not forced.
SpecE2E == InitE2E /\ [][NextE2E]_vars /\ WF_vars(Signaling \/ Messaging)

\* A peer is connected again while a session with it exists: one connection
\* object more, no application message, nothing failing.
InitReconnect == InitWith(Budget(MaxConns + 1, MaxKeys, 0, 0, 0))

NextReconnect ==
  \/ \E n \in Nodes : Initialize(n)
  \/ \E n \in Nodes, p \in Peers : ConnectToPeer(n, p)
  \/ \E n \in Nodes, p \in Peers, o \in DOMAIN conns : HandlePeerOffer(n, p, o)
  \/ \E n \in Nodes, p \in Peers, a \in DOMAIN conns : HandlePeerAnswer(n, p, a)
  \/ Signaling

SpecReconnect == InitReconnect /\ [][NextReconnect]_vars

\* Remote candidates arrive while a session is set up (the revision with
\* STUN servers): no application message, nothing failing.
InitIce == InitWith(WithStun(Budget(MaxConns, MaxKeys, 0, MaxCands, 0)))

NextIce ==
  \/ \E n \in Nodes : Initialize(n)
  \/ \E n \in Nodes, p \in Peers : ConnectToPeer(n, p)
  \/ \E n \in Nodes, p \in Peers, o \in DOMAIN conns : HandlePeerOffer(n, p, o)
  \/ \E n \in Nodes, p \in Peers, a \in DOMAIN conns : HandlePeerAnswer(n, p, a)
  \/ \E n \in Nodes, p \in Peers, candidate \in Candidates : AddIceCandidate(n, p, candidate)
  \/ \E i \in DOMAIN conns : ReplayDone(i)
  \/ Signaling

SpecIce == InitIce /\ [][NextIce]_vars

\* Sessions are set up and torn down, and torn down again.
InitTeardown == InitWith(Budget(MaxConns, MaxKeys, 0, 0, MaxFaults + 1))

NextTeardown ==
  \/ \E n \in Nodes : Initialize(n)
  \/ \E n \in Nodes, p \in Peers : ConnectToPeer(n, p)
  \/ \E n \in Nodes, p \in Peers, o \in DOMAIN conns : HandlePeerOffer(n, p, o)
  \/ \E n \in Nodes, p \in Peers, a \in DOMAIN conns : HandlePeerAnswer(n, p, a)
  \/ \E n \in Nodes : Disconnect(n)
  \/ Signaling

SpecTeardown == InitTeardown /\ [][NextTeardown]_vars

\* Sessions of a build with the fallback revision of diffieHellman, where a
\* service may generate its key pair anew while a session is set up.
InitInbound == InitWith(WithFallback(Budget(MaxConns, MaxKeys + 1, MaxSends, 0, 0)))

NextInbound ==
  \/ \E n \in Nodes : Initialize(n)
  \/ \E n \in Nodes, p \in Peers : ConnectToPeer(n, p)
  \/ \E n \in Nodes, p \in Peers, o \in DOMAIN conns : HandlePeerOffer(n, p, o)
  \/ \E n \in Nodes, p \in Peers, a \in DOMAIN conns : HandlePeerAnswer(n, p, a)
  \/ \E n \in Nodes, p \in Peers, text \in Texts : SendTextMessage(n, p, text)
  \/ \E n \in Nodes, p \in Peers, file \in Files : SendFile(n, p, file)
  \/ Signaling
  \/ Messaging

SpecInbound == InitInbound /\ [][NextInbound]_vars

\* A service holds sessions under two addresses at a time: the application
\* of one service names its sessions freely, one connection object more,
\* nothing failing.
FreeNaming == {"A"}
InitIsolation == InitWith(WithLabels(Budget(MaxConns + 1, MaxKeys, MaxSends, 0, 0), FreeNaming))

NextIsolation ==
  \/ \E n \in Nodes : dhKeyPair[n] = 0 /\ Initialize(n)
  \/ \E n \in Nodes, p \in Peers : ConnectToPeer(n, p)
  \/ \E n \in Nodes, p \in Peers, o \in DOMAIN conns : HandlePeerOffer(n, p, o)
  \/ \E n \in Nodes, p \in Peers, a \in DOMAIN conns : HandlePeerAnswer(n, p, a)
  \/ \E n \in Nodes, p \in Peers, text \in Texts : SendTextMessage(n, p, text)
  \/ \E t \in sendTasks : EncryptDone(t)
  \/ Signaling

SpecIsolation == InitIsolation /\ [][NextIsolation]_vars

\* The peer runs other software: besides the envelopes of this program, its
\* frames may be no JSON at all, or a KEY_EXCHANGE whose key is no curve point.
NotJson == [raw |-> "not json"]
BadKeyExchange ==
  Stringify(Envelope(<<0, 0>>, "KEY_EXCHANGE", 0, [publicKey |-> arrayBufferToBase64([junk |-> "x"])]))
ForeignFrames == {NotJson, BadKeyExchange}

InitFrames == InitWith(Budget(MaxConns, MaxKeys, 0, 0, 0))

NextFrames ==
  \/ \E n \in Nodes : Initialize(n)
  \/ \E n \in Nodes, p \in Peers : ConnectToPeer(n, p)
  \/ \E n \in Nodes, p \in Peers, o \in DOMAIN conns : HandlePeerOffer(n, p, o)
  \/ \E n \in Nodes, p \in Peers, a \in DOMAIN conns : HandlePeerAnswer(n, p, a)
  \/ \E j \in DOMAIN chans, data \in ForeignFrames : ChannelData(j, data)
  \/ Signaling

SpecFrames == InitFrames /\ [][NextFrames]_vars

\* --------------------------------------- the diffieHellman functions alone
\* The functions of the build: fallback says that the build has the revision
\* with the fallback, available what isCryptoAvailable() answers.  The other
\* revision calls Web Crypto unconditionally.
KeyIds == 1..(MaxKeys + 1)
Plaintexts == Texts \cup {file.content : file \in Files}
IVs == 1..NumIV
Tamperings == {"none", "ciphertext", "iv", "key"}

DeriveOf(fallback, available, privateKey, publicKey) ==
  IF fallback THEN deriveSharedSecretOrFallback(privateKey, publicKey, available)
  ELSE deriveSharedSecret(privateKey, publicKey)

EncryptOf(fallback, available, sharedSecret, data, iv) ==
  IF fallback THEN encryptWithSharedSecretOrFallback(sharedSecret, data, iv, available)
  ELSE encryptWithSharedSecret(sharedSecret, data, iv)

DecryptOf(fallback, available, sharedSecret, encryptedData) ==
  IF fallback THEN decryptWithSharedSecretOrFallback(sharedSecret, encryptedData, available)
  ELSE decryptWithSharedSecret(sharedSecret, encryptedData)

\* ciphertext bytes with a bit flipped authenticate under no key
NoKey == {0}

\* an {ciphertext, iv} structure with a bit of its ciphertext or of its IV
\* flipped; base64Text says that the structure is base64 of text
Tamper(encryptedData, how, base64Text) ==
  IF how = "ciphertext"
  THEN [encryptedData EXCEPT !.ciphertext =
          IF base64Text
          THEN btoa("flipped:" \o base64ToArrayBuffer(encryptedData.ciphertext).latin1)
          ELSE arrayBufferToBase64([base64ToArrayBuffer(encryptedData.ciphertext)
                                      EXCEPT !.key = NoKey])]
  ELSE IF how = "iv"
  THEN [encryptedData EXCEPT !.iv =
          IF base64Text
          THEN btoa("flipped:" \o base64ToArrayBuffer(encryptedData.iv).latin1)
          ELSE arrayBufferToBase64((base64ToArrayBuffer(encryptedData.iv) % NumIV) + 1)]
  ELSE encryptedData

\* generateKeyPair and exportPublicKey of FallbackDiffieHellman: the two keys
\* of a pair are objects with the one random id, the export is JSON.stringify
FallbackGenerateKeyPair(id) ==
  [publicKey |-> [id |-> id, type |-> "dh-public"],
   privateKey |-> [id |-> id, type |-> "dh-private"]]
FallbackExportPublicKey(publicKey) == Stringify(publicKey)

\* generateDHKeyPair and exportDHPublicKey of the revision with the fallback
generateDHKeyPairOrFallback(k, available) ==
  IF available THEN [publicKey |-> PublicKey(k), privateKey |-> PrivateKey(k)]
  ELSE FallbackGenerateKeyPair(k)
exportDHPublicKeyOrFallback(publicKey, available) ==
  IF available THEN exportDHPublicKey(publicKey)
  ELSE FallbackExportPublicKey(publicKey)

\* initialize, then exchangeKeys: the k-th key pair of the platform is
\* generated, its public key exported and put into a KEY_EXCHANGE envelope,
\* which sendToPeer serialises
KeyExchange(fallback, available, k) ==
  /\ fallback \/ available
  /\ LET keyPair == IF fallback THEN generateDHKeyPairOrFallback(k, available)
                    ELSE [publicKey |-> PublicKey(k), privateKey |-> PrivateKey(k)]
         publicKeyString == IF fallback
                            THEN exportDHPublicKeyOrFallback(keyPair.publicKey, available)
                            ELSE exportDHPublicKey(keyPair.publicKey)
     IN obs' = [NoObs EXCEPT !.crypto =
                  [NoCrypto EXCEPT
                     !.op = "exchange", !.fallback = fallback, !.available = available,
                     !.a = k, !.keyPair = keyPair,
                     !.frame = Stringify(Envelope(k, "KEY_EXCHANGE", 0,
                                                  [publicKey |-> publicKeyString]))]]
  /\ UNCHANGED <<initialized, dhKeyPair, userId, maps, conns, chans, hmTasks, sendTasks,
                 nextId, budget>>

\* the two services of a session derive their keys from the key pairs a and b
DeriveBoth(fallback, available, a, b) ==
  /\ fallback \/ available
  /\ a # b
  /\ obs' = [NoObs EXCEPT !.crypto =
               [NoCrypto EXCEPT
                  !.op = "derive", !.fallback = fallback, !.available = available,
                  !.a = a, !.b = b,
                  !.ab = DeriveOf(fallback, available, PrivateKey(a), PublicKey(b)),
                  !.ba = DeriveOf(fallback, available, PrivateKey(b), PublicKey(a))]]
  /\ UNCHANGED <<initialized, dhKeyPair, userId, maps, conns, chans, hmTasks, sendTasks,
                 nextId, budget>>

\* data is encrypted under the key of a for b; what arrives, tampered with or
\* not, is decrypted under the key of b for a, or for a third key pair c
EncryptDecrypt(fallback, available, a, b, c, data, iv, how) ==
  /\ fallback \/ available
  /\ a # b /\ c \notin {a, b}
  /\ obs' = [NoObs EXCEPT !.crypto =
               [NoCrypto EXCEPT
                  !.op = "decrypt", !.fallback = fallback, !.available = available,
                  !.a = a, !.b = b, !.data = data, !.how = how,
                  !.ab = DeriveOf(fallback, available, PrivateKey(a), PublicKey(b)),
                  !.ba = DeriveOf(fallback, available, PrivateKey(b),
                                  PublicKey(IF how = "key" THEN c ELSE a)),
                  !.decrypted =
                     DecryptOf(fallback, available,
                               DeriveOf(fallback, available, PrivateKey(b),
                                        PublicKey(IF how = "key" THEN c ELSE a)),
                               Tamper(EncryptOf(fallback, available,
                                                DeriveOf(fallback, available,
                                                         PrivateKey(a), PublicKey(b)),
                                                data, iv),
                                      how, fallback /\ ~available))]]
  /\ UNCHANGED <<initialized, dhKeyPair, userId, maps, conns, chans, hmTasks, sendTasks,
                 nextId, budget>>

\* every kind of string a caller may pass
Strings == Plaintexts \cup {EmptyText, WideText, LoneSurrogate}

\* data is encrypted and what encryption returns is decrypted under the same
\* key; an encryption that throws leaves nothing to decrypt
RoundTrip(fallback, available, a, b, data, iv) ==
  /\ fallback \/ available
  /\ a # b
  /\ LET k == DeriveOf(fallback, available, PrivateKey(a), PublicKey(b))
         encrypted == EncryptOf(fallback, available, k, data, iv)
     IN obs' = [NoObs EXCEPT !.crypto =
                  [NoCrypto EXCEPT
                     !.op = "roundtrip", !.fallback = fallback, !.available = available,
                     !.a = a, !.b = b, !.data = data, !.ab = k, !.ba = k,
                     !.decrypted = IF "error" \in DOMAIN encrypted THEN encrypted
                                   ELSE DecryptOf(fallback, available, k, encrypted)]]
  /\ UNCHANGED <<initialized, dhKeyPair, userId, maps, conns, chans, hmTasks, sendTasks,
                 nextId, budget>>

\* a message is encrypted for the RSA key pair a and what encryption returns
\* is decrypted with the private key of the pair b
Hybrid(fallback, available, a, b, data, aesKey, iv) ==
  /\ fallback \/ available
  /\ LET encrypted == IF fallback
                      THEN encryptMessage(data, RsaPublicKey(a), aesKey, iv, available)
                      ELSE encryptMessageStrict(data, RsaPublicKey(a), aesKey, iv)
     IN obs' = [NoObs EXCEPT !.crypto =
                  [NoCrypto EXCEPT
                     !.op = "hybrid", !.fallback = fallback, !.available = available,
                     !.a = a, !.b = b, !.data = data,
                     !.decrypted =
                        IF "error" \in DOMAIN encrypted THEN encrypted
                        ELSE IF fallback
                        THEN decryptMessage(encrypted, RsaPrivateKey(b), available)
                        ELSE decryptMessageStrict(encrypted, RsaPrivateKey(b))]]
  /\ UNCHANGED <<initialized, dhKeyPair, userId, maps, conns, chans, hmTasks, sendTasks,
                 nextId, budget>>

\* crypto.getRandomValues(new Uint8Array(12)): the n-th block of random bytes
GetRandomValues(n) == [random |-> n]
EncryptFunctions == {"encryptWithSharedSecret", "encryptMessage"}

\* One more call of an encrypt function on the same text under the same key,
\* after the calls whose IVs are in obs.crypto.issued; a call takes two blocks
\* of random bytes at most.  throws says that the
\* platform's encryption fails in this call: the revision with the fallback
\* then returns what it returns without Web Crypto, the other revision
\* rejects.
EncryptNext(fn, fallback, available, throws) ==
  /\ fn \in EncryptFunctions
  /\ fallback \/ available
  /\ obs.crypto.op \in {"none", "encrypt"}
  /\ obs.crypto.op = "encrypt" =>
        /\ obs.crypto.fn = fn
        /\ obs.crypto.fallback = fallback
        /\ obs.crypto.available = available
  /\ obs.crypto.rng < 2 * MaxEncrypts
  /\ LET n == obs.crypto.rng
         k == DeriveOf(fallback, available, PrivateKey(1), PublicKey(2))
         encrypted ==
           IF ~fallback /\ throws THEN [error |-> "encryption failed"]
           ELSE IF fn = "encryptWithSharedSecret"
           THEN EncryptOf(fallback, available /\ ~throws, k, "hello", GetRandomValues(n + 1))
           ELSE IF fallback
           THEN encryptMessage("hello", RsaPublicKey(1), n + 2, GetRandomValues(n + 1),
                               available /\ ~throws)
           ELSE encryptMessageStrict("hello", RsaPublicKey(1), n + 2, GetRandomValues(n + 1))
     IN obs' = [NoObs EXCEPT !.crypto =
                  [NoCrypto EXCEPT
                     !.op = "encrypt", !.fn = fn, !.fallback = fallback,
                     !.available = available, !.data = "hello",
                     !.rng = n + 2,
                     !.issued = IF "error" \in DOMAIN encrypted THEN obs.crypto.issued
                                ELSE Append(obs.crypto.issued, encrypted.iv)]]
  /\ UNCHANGED <<initialized, dhKeyPair, userId, maps, conns, chans, hmTasks, sendTasks,
                 nextId, budget>>

InitCrypto == InitWith(Budget(0, 0, 0, 0, 0))

NextCrypto ==
  \/ \E fallback \in BOOLEAN, available \in BOOLEAN, a \in KeyIds, b \in KeyIds :
        DeriveBoth(fallback, available, a, b)
  \/ \E fallback \in BOOLEAN, available \in BOOLEAN, a \in KeyIds, b \in KeyIds,
        c \in KeyIds, data \in Plaintexts, iv \in IVs, how \in Tamperings :
        EncryptDecrypt(fallback, available, a, b, c, data, iv, how)
  \/ \E fallback \in BOOLEAN, available \in BOOLEAN, a \in KeyIds, b \in KeyIds,
        data \in Strings, iv \in IVs :
        RoundTrip(fallback, available, a, b, data, iv)
  \/ \E fallback \in BOOLEAN, available \in BOOLEAN, a \in KeyIds, b \in KeyIds,
        data \in Strings, aesKey \in IVs, iv \in IVs :
        Hybrid(fallback, available, a, b, data, aesKey, iv)
  \/ \E fn \in EncryptFunctions, fallback \in BOOLEAN, available \in BOOLEAN,
        throws \in BOOLEAN :
        EncryptNext(fn, fallback, available, throws)
  \/ \E fallback \in BOOLEAN, available \in BOOLEAN, k \in KeyIds :
        KeyExchange(fallback, available, k)

SpecCrypto == InitCrypto /\ [][NextCrypto]_vars

\* ------------------------------------------------------ useDirectP2PChat hook
\* handleContactAnswer of the service n, res being how its await of
\* handlePeerAnswer ended: false from the catch block, true otherwise
handleContactAnswer(n, res) ==
  IF ~isInitialized(n) THEN FALSE
  ELSE IF res \in {"throw", "UnknownPeer"} THEN FALSE
  ELSE TRUE

\* A call of the hook's initialize or reconnect: pc is the await it is
\* suspended at, svc the service it constructed.
HookCall(op, pc, svc) == [op |-> op, pc |-> pc, svc |-> svc]

\* p2pServiceRef.current.disconnect() for the service n
ServiceDisconnect(n) ==
  /\ chans' = [j \in DOMAIN chans |->
                 IF /\ chans[j].readyState # "closed"
                    /\ \/ j \in Registered(n, dataChannels)
                       \/ chans[j].conn \in Registered(n, connections)
                 THEN [chans[j] EXCEPT !.readyState = "closing"]
                 ELSE chans[j]]
  /\ conns' = [i \in DOMAIN conns |->
                 IF i \in Registered(n, connections)
                 THEN [conns[i] EXCEPT !.cstate = "closed", !.sig = "closed"]
                 ELSE conns[i]]
  /\ connections' = [connections EXCEPT ![n] = [p \in Peers |-> 0]]
  /\ dataChannels' = [dataChannels EXCEPT ![n] = [p \in Peers |-> 0]]
  /\ pendingOffers' = [pendingOffers EXCEPT ![n] = [p \in Peers |-> 0]]
  /\ pendingCandidates' = [pendingCandidates EXCEPT ![n] = [p \in Peers |-> <<>>]]
  /\ sharedSecrets' = [sharedSecrets EXCEPT ![n] = [p \in Peers |-> NoSecret]]
  /\ connectionState' = [connectionState EXCEPT ![n] = [p \in Peers |-> "none"]]
  /\ initialized' = [initialized EXCEPT ![n] = FALSE]

\* initialize(username) or reconnect() of the hook up to its first await:
\* reconnect throws without a user profile; otherwise the service referenced
\* is disconnected and the reference set to null, then generateKeyPair() or
\* restoreUserKeys() is awaited
HookStart(op, profile) ==
  /\ op \in {"initialize", "reconnect"}
  /\ Len(obs.hook.calls) < Cardinality(Nodes)
  /\ IF op = "reconnect" /\ ~profile
     THEN /\ obs' = [NoObs EXCEPT !.hook =
                       [obs.hook EXCEPT !.calls = Append(@, HookCall(op, "failed", "-"))]]
          /\ UNCHANGED <<initialized, maps, conns, chans>>
     ELSE /\ IF obs.hook.ref # "-"
             THEN ServiceDisconnect(obs.hook.ref)
             ELSE UNCHANGED <<initialized, maps, conns, chans>>
          /\ obs' = [NoObs EXCEPT !.hook =
                       [obs.hook EXCEPT !.ref = "-",
                                        !.calls = Append(@, HookCall(op, "keys", "-"))]]
  /\ UNCHANGED <<dhKeyPair, userId, hmTasks, sendTasks, nextId, budget>>

\* the call c after its first await: reconnect throws when no keys were
\* restored; otherwise a DirectP2PService is constructed and its
\* initialize(keyPair) is awaited
HookKeysDone(c, restored) ==
  /\ c \in DOMAIN obs.hook.calls /\ obs.hook.calls[c].pc = "keys"
  /\ IF obs.hook.calls[c].op = "reconnect" /\ ~restored
     THEN obs' = [NoObs EXCEPT !.hook = [obs.hook EXCEPT !.calls[c].pc = "failed"]]
     ELSE \E n \in Nodes \ obs.hook.created :
            obs' = [NoObs EXCEPT !.hook =
                      [obs.hook EXCEPT !.created = @ \cup {n},
                                       !.calls[c].pc = "init", !.calls[c].svc = n]]
  /\ UNCHANGED <<initialized, dhKeyPair, userId, maps, conns, chans, hmTasks, sendTasks,
                 nextId, budget>>

\* the call c after await p2pService.initialize(keyPair): the service has
\* written its key pair, its identity and initialized, the hook stores the
\* reference and finds isInitialized() true; or initialize rejected and the
\* catch block of the hook ends the call
HookInitDone(c, ok) ==
  /\ c \in DOMAIN obs.hook.calls /\ obs.hook.calls[c].pc = "init"
  /\ LET n == obs.hook.calls[c].svc
     IN IF ok
        THEN /\ budget.keys < budget.max.keys
             /\ dhKeyPair' = [dhKeyPair EXCEPT ![n] = budget.keys + 1]
             /\ userId' = [userId EXCEPT ![n] = budget.keys + 1]
             /\ initialized' = [initialized EXCEPT ![n] = TRUE]
             /\ budget' = [budget EXCEPT !.keys = @ + 1]
             /\ obs' = [NoObs EXCEPT !.hook =
                          [obs.hook EXCEPT !.ref = n, !.calls[c].pc = "done"]]
        ELSE /\ obs' = [NoObs EXCEPT !.hook = [obs.hook EXCEPT !.calls[c].pc = "failed"]]
             /\ UNCHANGED <<initialized, dhKeyPair, userId, budget>>
  /\ UNCHANGED <<maps, conns, chans, hmTasks, sendTasks, nextId>>

\* disconnect() of the hook
HookDisconnect ==
  /\ obs.hook.ref # "-"
  /\ ServiceDisconnect(obs.hook.ref)
  /\ obs' = [NoObs EXCEPT !.hook = [obs.hook EXCEPT !.ref = "-"]]
  /\ UNCHANGED <<dhKeyPair, userId, hmTasks, sendTasks, nextId, budget>>

\* The hook alone: its calls may overlap, every service it constructs is one
\* of Nodes.
InitHook == InitWith(WithStun(Budget(0, MaxKeys, 0, 0, 0)))

NextHook ==
  \/ \E op \in {"initialize", "reconnect"}, profile \in BOOLEAN : HookStart(op, profile)
  \/ \E c \in DOMAIN obs.hook.calls, restored \in BOOLEAN : HookKeysDone(c, restored)
  \/ \E c \in DOMAIN obs.hook.calls, ok \in BOOLEAN : HookInitDone(c, ok)
  \/ HookDisconnect

SpecHook == InitHook /\ [][NextHook]_vars

\* ================================================================== claims
Pool == 1..(MaxConns + 1)
SendOps == {"sendTextMessage", "sendFile"}
ConnectionOps == {"connectToPeer", "handlePeerOffer", "handlePeerAnswer", "addIceCandidate"}

\* channel j and the channel at its other end have both had their open event,
\* each on a service that held a key pair
Session(j) ==
  /\ j \in DOMAIN chans /\ chans[j].remote # 0
  /\ chans[j].opened /\ chans[chans[j].remote].opened
  /\ chans[j].ex.pc # "failed" /\ chans[chans[j].remote].ex.pc # "failed"

\* the two ends of channel j hold the same key for each other
SecretsAgree(j) ==
  /\ j \in DOMAIN chans
  /\ sharedSecrets[chans[j].owner][chans[j].peer] # NoSecret
  /\ sharedSecrets[chans[j].peer][chans[j].owner] = sharedSecrets[chans[j].owner][chans[j].peer]

\* n has just called sendTextMessage(p, text) on an open channel while both
\* sides hold the same key
SentAfterExchange(n, p, text) ==
  /\ obs.call = Call("sendTextMessage", n, p, "pending", TRUE)
  /\ sharedSecrets[n][p] # NoSecret /\ sharedSecrets[p][n] = sharedSecrets[n][p]
  /\ \E t \in sendTasks : t.op = "sendTextMessage" /\ t.node = n /\ t.peer = p /\ t.data = text

\* onMessage of n is being called with a TEXT envelope of p that arrived
\* encrypted and now carries the string text
DeliveredText(n, p, text) ==
  /\ obs.delivered.node = n /\ obs.delivered.peer = p
  /\ obs.delivered.env.type = "TEXT"
  /\ IsEncryptedData(obs.delivered.orig.payload)
  /\ obs.delivered.env.payload = Str(text)

C2_SecretBeforeNextEnvelope ==
  (obs.dispatch.keBefore /\ budget.faults = 0 /\ chans[obs.dispatch.chan].ex.pc # "failed")
    => obs.dispatch.hasSecret

\* C3: no TEXT, IMAGE or FILE envelope is placed on a channel before the
\* sender's own KEY_EXCHANGE envelope has been placed on that channel.
C3_KeyExchangeFirst ==
  obs.sent.env.type \in AppTypes => obs.sent.keSent >= 1

\* C4: a channel that opened on a service holding a key pair carries exactly
\* one KEY_EXCHANGE envelope of that service once its exchangeKeys call has
\* finished (here for the channels that are still open).
C4_OneKeyExchange ==
  \A j \in DOMAIN chans :
    (chans[j].ex.pc = "done" /\ chans[j].readyState = "open") => chans[j].keSent = 1

\* C5: onMessage is never called with an envelope of type KEY_EXCHANGE.
C5_KeyExchangeIntercepted ==
  obs.delivered.env.type # "KEY_EXCHANGE"

C7_SecretAtCall ==
  obs.sent.env.type \in AppTypes =>
    (IsEncryptedData(EncryptedPart(obs.sent.env)) <=> obs.sent.callSecret # NoSecret)

\* C7: an envelope of sendTextMessage or sendFile carries its value encrypted
\* under the peer's shared secret if and only if a secret for the peer exists
\* when the operation looks it up, which sendTextMessage does at the call and
\* sendFile after the file has been read; otherwise it carries the plain value.
C7_SecretAtLookup ==
  obs.sent.env.type \in AppTypes =>
    /\ IsEncryptedData(EncryptedPart(obs.sent.env)) <=> obs.sent.useSecret # NoSecret
    /\ IF obs.sent.useSecret # NoSecret
       THEN decryptWithSharedSecret(obs.sent.useSecret, EncryptedPart(obs.sent.env))
              = Str(obs.sent.data)
       ELSE EncryptedPart(obs.sent.env) = Str(obs.sent.data)
    /\ obs.sent.env.type = "TEXT" => obs.sent.useSecret = obs.sent.callSecret

C7_Witness ==
  /\ obs.sent.env.type \in {"IMAGE", "FILE"}
  /\ IsEncryptedData(obs.sent.env.payload.data)
  /\ obs.sent.callSecret = NoSecret

\* C8: every TEXT, IMAGE or FILE envelope placed on a data channel carries an
\* encrypted payload.
C8_AlwaysEncrypted ==
  obs.sent.env.type \in AppTypes => IsEncryptedData(EncryptedPart(obs.sent.env))

\* C9 as stated: sendTextMessage and sendFile return false, without throwing
\* and without placing a frame, whenever no open channel exists for the peer.
C9_FalseWithoutChannel ==
  (obs.call.op \in SendOps /\ obs.call.res # "pending" /\ ~obs.call.open) =>
    obs.call.res = "false" /\ obs.sent = NoSent

\* C9: called on an initialized service with no open channel for the peer,
\* sendTextMessage and sendFile return false without throwing and place
\* nothing on any channel; called on a service that is not initialized they
\* throw NotInitialized.
C9_FalseWhenInitialized ==
  (obs.call.op \in SendOps /\ obs.call.res # "pending" /\ ~obs.call.open) =>
    /\ obs.sent = NoSent
    /\ obs.call.res = IF obs.call.at = "call" /\ ~initialized[obs.call.node]
                      THEN "NotInitialized" ELSE "false"

C9_Witness ==
  /\ obs.call.op = "sendTextMessage" /\ obs.call.at = "call"
  /\ initialized[obs.call.node] /\ ~obs.call.open
  /\ dataChannels[obs.call.node][obs.call.peer] # 0
  /\ obs.call.res = "false"

\* C10: a connection operation called on a service that is not initialized
\* fails with NotInitialized and leaves no connection object or data channel
\* registered for the peer.
C10_NotInitialized ==
  (obs.call.at = "call" /\ obs.call.op \in ConnectionOps /\ ~initialized[obs.call.node]) =>
    /\ obs.call.res = "NotInitialized"
    /\ connections[obs.call.node][obs.call.peer] = 0
    /\ dataChannels[obs.call.node][obs.call.peer] = 0

\* C11: every connection object and every data channel that is not closed is
\* the one registered for its peer: a connectToPeer or handlePeerOffer for a
\* peer that already has a session closes the prior connection and channel
\* before it registers the new ones.
C11_OneSessionPerPeer ==
  /\ \A i \in DOMAIN conns :
        ~Closed(i) => connections[conns[i].owner][conns[i].peer] = i
  /\ \A j \in DOMAIN chans :
        chans[j].readyState # "closed" => dataChannels[chans[j].owner][chans[j].peer] = j

\* C12: handlePeerAnswer(p, answer) fails with UnknownPeer whenever no offer
\* is pending for p, also when a connection is registered for p.
C12_UnknownPeer ==
  (/\ obs.call.op = "handlePeerAnswer" /\ obs.call.at = "call"
   /\ pendingOffers[obs.call.node][obs.call.peer] = 0)
    => obs.call.res = "UnknownPeer"

\* C13: once the connection registered for a peer has its remote description
\* and handlePeerAnswer is not handing candidates over, no candidate for the
\* peer is still buffered, whether connectToPeer or handlePeerOffer created
\* the connection.
C13_BufferedApplied ==
  \A n \in Nodes, p \in Peers :
    (/\ connections[n][p] # 0
     /\ HasRemoteDescription(connections[n][p])
     /\ conns[connections[n][p]].ans # "replay")
      => pendingCandidates[n][p] = <<>>

\* C14: the candidates of a peer are applied to its connection in the order
\* in which they were passed to addIceCandidate.
C14_CandidateOrder ==
  \A i \in DOMAIN conns :
    \A k \in 1..Len(conns[i].cands), l \in 1..Len(conns[i].cands) :
      k < l => conns[i].cands[k] < conns[i].cands[l]

\* the per-peer maps of n hold nothing
MapsEmpty(n) ==
  /\ \A p \in Peers : /\ connections[n][p] = 0
                       /\ dataChannels[n][p] = 0
                       /\ pendingOffers[n][p] = 0
                       /\ sharedSecrets[n][p] = NoSecret
                       /\ pendingCandidates[n][p] = <<>>
                       /\ connectionState[n][p] = "none"

\* C15: a step in which disconnect() returns leaves every connection object
\* and data channel that was registered closed or closing, all per-peer maps
\* empty, isInitialized() false and getConnectedPeers() empty; the call does
\* not throw, and made again right after a disconnect() it changes nothing.
C15_Disconnect ==
  [][\A n \in Nodes :
       (obs'.call.op = "disconnect" /\ obs'.call.node = n) =>
         /\ obs'.call.res = "ok"
         /\ \A i \in Registered(n, connections) : conns'[i].cstate = "closed"
         /\ \A j \in Registered(n, dataChannels) :
               chans'[j].readyState \in {"closing", "closed"}
         /\ MapsEmpty(n)'
         /\ ~isInitialized(n)'
         /\ getConnectedPeers(n)' = {}
         /\ (obs.call.op = "disconnect" /\ obs.call.node = n)
              => UNCHANGED <<initialized, dhKeyPair, userId, connections, dataChannels,
                             sharedSecrets, pendingOffers, connectionState, pendingCandidates,
                             conns, chans, hmTasks, sendTasks, nextId>>]_vars

\* disconnect() was called a second time by a service that had sent its key
\* exchange message on a session, the other services being untouched
C15_Witness ==
  /\ obs.call.op = "disconnect"
  /\ budget.disconnects = 2
  /\ \E i \in DOMAIN conns, j \in DOMAIN chans :
        /\ conns[i].owner = obs.call.node /\ Closed(i)
        /\ chans[j].owner = obs.call.node /\ chans[j].conn = i
        /\ chans[j].readyState \in {"closing", "closed"}
        /\ chans[j].keSent >= 1
  /\ \A m \in Nodes \ {obs.call.node} :
        initialized[m] /\ \A i \in DOMAIN conns : conns[i].owner = m => ~Closed(i)

\* C16: in every state and for every peer p, isConnectedTo(p) is true exactly
\* when a data channel is registered for p and that channel is open, and
\* getConnectedPeers() is the set of the peers p with isConnectedTo(p).
C16_ConnectedQueries ==
  \A n \in Nodes :
    /\ \A p \in Peers :
          isConnectedTo(n, p) <=>
            \E j \in DOMAIN chans : dataChannels[n][p] = j /\ chans[j].readyState = "open"
    /\ getConnectedPeers(n) = {p \in Peers : isConnectedTo(n, p)}

\* one service has an open channel registered, another a registered channel
\* that is not open
C16_Witness ==
  \E n \in Nodes, m \in Nodes, p \in Peers, q \in Peers :
    /\ isConnectedTo(n, p) /\ getConnectedPeers(n) = {p}
    /\ dataChannels[m][q] # 0 /\ ~isConnectedTo(m, q) /\ getConnectedPeers(m) = {}

\* C17: initialize() called on a service that is not initialized either
\* succeeds, returning a non-empty identity and leaving isInitialized() true,
\* a DH key pair present and no peer connected, or rejects because no key
\* pair could be generated and leaves isInitialized() false.
C17_Initialize ==
  [][\A n \in Nodes :
       (obs'.call.op = "initialize" /\ obs'.call.node = n /\ ~isInitialized(n)) =>
         \/ /\ obs'.call.res = "ok"
            /\ userId'[n] # 0
            /\ isInitialized(n)'
            /\ dhKeyPair'[n] # 0
            /\ \A p \in Peers : ~isConnectedTo(n, p)'
            /\ getConnectedPeers(n)' = {}
         \/ /\ obs'.call.res = "throw"
            /\ ~isInitialized(n)']_vars

\* C18: when the decryption of an inbound encrypted envelope fails (key, IV
\* and ciphertext do not belong together), the step that ends the decryption
\* delivers nothing to onMessage, invokes onError and leaves the peer's
\* connection object, data channel, shared secret and connection state as
\* they were.
C18_DecryptionFailure ==
  [][\A t \in hmTasks :
       (/\ t.pc = "decrypt" /\ t \notin hmTasks'
        /\ decryptWithSharedSecret(t.secret, EncryptedPart(t.msg)) = DecryptionFailed)
         => /\ obs'.delivered = NoDelivered
            /\ Cb("onMessage", t.node, t.peer) \notin obs'.cbs
            /\ Cb("onError", t.node, t.peer) \in obs'.cbs
            /\ UNCHANGED <<connections, dataChannels, sharedSecrets, connectionState,
                           conns, chans>>]_vars

\* C19: decrypting a structure that differs from the output of encrypt in the
\* ciphertext or in the IV, or decrypting with another key, ends in
\* DecryptionFailed and never returns a string.
C19_TamperDetected ==
  (obs.crypto.op = "decrypt" /\ obs.crypto.how # "none")
    => obs.crypto.decrypted = DecryptionFailed

C21_RoundTrip ==
  obs.crypto.op = "roundtrip" => obs.crypto.decrypted = Str(obs.crypto.data)

\* C22: for every RSA key pair and every string m, the empty string included,
\* decryptMessage(encryptMessage(m, pub), priv) returns m, and decryptMessage
\* with the private key of another pair fails and returns no string.
C22_HybridRoundTrip ==
  obs.crypto.op = "hybrid" =>
    IF obs.crypto.a = obs.crypto.b
    THEN obs.crypto.decrypted = Str(obs.crypto.data)
    ELSE "str" \notin DOMAIN obs.crypto.decrypted

\* C23: over a sequence of encrypt calls under one key no two returned
\* structures carry the same IV, whichever path encryptWithSharedSecret or
\* encryptMessage takes.
C23_FreshIV ==
  obs.crypto.op = "encrypt" =>
    \A i \in 1..Len(obs.crypto.issued), j \in 1..Len(obs.crypto.issued) :
      i # j => obs.crypto.issued[i] # obs.crypto.issued[j]

\* C24: every connection object created by connectToPeer or handlePeerOffer
\* is configured with an empty list of ICE servers.
C24_NoIceServers ==
  \A i \in DOMAIN conns : conns[i].config.iceServers = <<>>

\* C25: when connectToPeer(p) or handlePeerOffer(p, offer) fails, no
\* connection object, data channel or pending offer is registered for p when
\* the call rejects, and p's connection state is absent or disconnected.
C25_FailedAttemptCleared ==
  (/\ obs.call.op \in {"connectToPeer", "handlePeerOffer"}
   /\ obs.call.at = "return" /\ obs.call.res = "throw")
    => /\ connections[obs.call.node][obs.call.peer] = 0
       /\ dataChannels[obs.call.node][obs.call.peer] = 0
       /\ pendingOffers[obs.call.node][obs.call.peer] = 0
       /\ connectionState[obs.call.node][obs.call.peer] \in {"none", "disconnected"}

\* C26: whenever applying the remote answer fails inside handlePeerAnswer,
\* the call rejects, the step does not set the peer's state to connected,
\* and handleContactAnswer returns false.
C26_AnswerFailureRejects ==
  [][\A n \in Nodes, p \in Peers :
       (/\ obs'.call.op = "handlePeerAnswer"
        /\ obs'.call.node = n /\ obs'.call.peer = p
        /\ Cb("onError", n, p) \in obs'.cbs)
         => /\ obs'.call.res = "throw"
            /\ connectionState'[n][p] = "connected" => connectionState[n][p] = "connected"
            /\ ~handleContactAnswer(n, obs'.call.res)]_vars

\* the maps of service n hold for peer q what they held before the step
PeerUnchanged(n, q) ==
  /\ connections'[n][q] = connections[n][q]
  /\ dataChannels'[n][q] = dataChannels[n][q]
  /\ sharedSecrets'[n][q] = sharedSecrets[n][q]
  /\ pendingOffers'[n][q] = pendingOffers[n][q]
  /\ connectionState'[n][q] = connectionState[n][q]
  /\ pendingCandidates'[n][q] = pendingCandidates[n][q]

\* C27: a frame from p that does not parse, or a KEY_EXCHANGE from p whose key
\* does not import, is reported through onError, is not delivered to
\* onMessage, stores no secret for p and changes nothing for any other peer.
C27_BadFrameReported ==
  [][\A n \in Nodes, p \in Peers :
       (\/ /\ obs'.dispatch.type = "SyntaxError"
           /\ obs'.dispatch.node = n /\ obs'.dispatch.peer = p
        \/ \E t \in hmTasks :
             /\ t.pc = "import" /\ t.node = n /\ t.peer = p
             /\ importDHPublicKey(t.msg.payload.publicKey) = MalformedKey
             /\ t \notin hmTasks')
         => /\ Cb("onError", n, p) \in obs'.cbs
            /\ Cb("onMessage", n, p) \notin obs'.cbs
            /\ sharedSecrets'[n][p] = sharedSecrets[n][p]
            /\ \A q \in Peers \ {p} : PeerUnchanged(n, q)]_vars

\* what a key object holds: the id of a fallback key, the scalar of an ECDH
\* private key, the curve point of an ECDH public key
KeyMaterial(key) ==
  IF "id" \in DOMAIN key THEN [id |-> key.id]
  ELSE IF key.usage = "private" THEN [scalar |-> key.k]
  ELSE [point |-> key.k]

\* what the reader of an exported key learns
OnWire(keyData) ==
  IF "json" \in DOMAIN keyData THEN [id |-> Parse(keyData).id]
  ELSE base64ToArrayBuffer(keyData)

\* C28: no private key material is placed on the wire: the payload of a
\* KEY_EXCHANGE envelope holds the local public key only, and what it gives
\* away is not what the local private key holds.
C28_NoPrivateKeyOnWire ==
  obs.crypto.op = "exchange" =>
    /\ DOMAIN Parse(obs.crypto.frame).payload = {"publicKey"}
    /\ OnWire(Parse(obs.crypto.frame).payload.publicKey) = KeyMaterial(obs.crypto.keyPair.publicKey)
    /\ OnWire(Parse(obs.crypto.frame).payload.publicKey) # KeyMaterial(obs.crypto.keyPair.privateKey)

\* C29: the state of a peer only moves forward: once it is disconnected it
\* becomes connecting or connected again only by a call of connectToPeer or
\* handlePeerOffer for that peer, which starts the next session.
C29_ForwardOnly ==
  [][\A n \in Nodes, p \in Peers :
       (/\ connectionState[n][p] = "disconnected"
        /\ connectionState'[n][p] \in {"connecting", "connected"})
         => /\ obs'.call.op \in {"connectToPeer", "handlePeerOffer"}
            /\ obs'.call.at = "call"
            /\ obs'.call.node = n /\ obs'.call.peer = p]_vars

\* C30: every step that makes the state of a peer connected calls
\* onConnection for it, and every step that makes it disconnected calls
\* onDisconnection for it.
C30_TransitionCallbacks ==
  [][\A n \in Nodes, p \in Peers :
       /\ (connectionState[n][p] # "connected" /\ connectionState'[n][p] = "connected")
            => Cb("onConnection", n, p) \in obs'.cbs
       /\ (connectionState[n][p] # "disconnected" /\ connectionState'[n][p] = "disconnected")
            => Cb("onDisconnection", n, p) \in obs'.cbs]_vars

\* C31: while the transport of the connection registered for p has never
\* been connected, the state of p is not connected; and the step in which the
\* platform reports that connection failed or disconnected makes the state
\* disconnected and calls onDisconnection(p).
C31_NeverConnectedAttempt ==
  [][/\ \A n \in Nodes, p \in Peers :
          (connections'[n][p] # 0 /\ conns'[connections'[n][p]].cstate = "new")
            => connectionState'[n][p] # "connected"
     /\ \A i \in DOMAIN conns :
          (/\ conns'[i].cstate \in {"failed", "disconnected"}
           /\ conns[i].cstate # conns'[i].cstate)
            => /\ connectionState'[conns[i].owner][conns[i].peer] = "disconnected"
               /\ Cb("onDisconnection", conns[i].owner, conns[i].peer) \in obs'.cbs]_vars

\* C32: the key pair and the identity of a service are fixed after
\* initialize: only a step of initialize changes them, initialize on an
\* initialized service leaves them as they are, and every secret in the
\* registry was derived from the key pair the service holds.
C32_KeyPairFixed ==
  [][\A n \in Nodes :
       /\ (dhKeyPair'[n] # dhKeyPair[n] \/ userId'[n] # userId[n])
            => (obs'.call.op = "initialize" /\ obs'.call.node = n /\ ~isInitialized(n))
       /\ \A p \in Peers :
            sharedSecrets'[n][p] # NoSecret => dhKeyPair'[n] \in sharedSecrets'[n][p]]_vars

\* the step just taken is an operation or an event of service n that concerns
\* peer p
Concerns(n, p) ==
  \/ obs'.call.node = n /\ obs'.call.peer = p
  \/ obs'.dispatch.node = n /\ obs'.dispatch.peer = p
  \/ \E cb \in obs'.cbs : cb.node = n /\ cb.peer = p

\* the native objects registered for q at n are as they were
ObjectsUnchanged(n, q) ==
  /\ connections[n][q] # 0 => conns'[connections[n][q]] = conns[connections[n][q]]
  /\ dataChannels[n][q] # 0 => chans'[dataChannels[n][q]] = chans[dataChannels[n][q]]

C34_SecretEndsWithSession ==
  [][\A n \in Nodes, p \in Peers :
       (\/ Cb("onDisconnection", n, p) \in obs'.cbs
        \/ /\ obs'.call.op \in {"connectToPeer", "handlePeerOffer"}
           /\ obs'.call.at = "call" /\ obs'.call.res = "pending"
           /\ obs'.call.node = n /\ obs'.call.peer = p)
         => sharedSecrets'[n][p] = NoSecret]_vars

\* C35: a data channel is registered for p only if a connection object is
\* registered for p, and the registered channel is the one created by or
\* received on the registered connection object.
C35_ChannelOfConnection ==
  \A n \in Nodes, p \in Peers :
    dataChannels[n][p] # 0 =>
      /\ connections[n][p] # 0
      /\ chans[dataChannels[n][p]].conn = connections[n][p]

\* the step just taken is an event fired by a connection object of n for p
\* that is no longer the registered one, or by a data channel of it: a
\* connection-state or signaling-state change, an open, a close or a message
ReplacedEvent(n, p) ==
  \E i \in DOMAIN conns :
    /\ conns[i].owner = n /\ conns[i].peer = p
    /\ connections[n][p] \notin {0, i}
    /\ obs'.call.at # "call"
    /\ \/ conns'[i].cstate # conns[i].cstate
       \/ conns'[i].sig # conns[i].sig
       \/ \E j \in DOMAIN chans :
            /\ chans[j].conn = i
            /\ \/ chans'[j].opened # chans[j].opened
               \/ chans'[j].readyState # chans[j].readyState
               \/ obs'.dispatch.chan = j

\* C36: an event of a replaced session does not change the connection state,
\* the shared secret or the registered channel of p and calls neither
\* onConnection nor onDisconnection for p.
C36_ReplacedSessionSilent ==
  [][\A n \in Nodes, p \in Peers :
       ReplacedEvent(n, p)
         => /\ connectionState'[n][p] = connectionState[n][p]
            /\ sharedSecrets'[n][p] = sharedSecrets[n][p]
            /\ dataChannels'[n][p] = dataChannels[n][p]
            /\ Cb("onConnection", n, p) \notin obs'.cbs
            /\ Cb("onDisconnection", n, p) \notin obs'.cbs]_vars

\* C37: whenever a service is not initialized, all its per-peer maps are
\* empty, also when disconnect() ran while a call was suspended at an await
\* or before a native event was delivered.
C37_UninitializedEmpty ==
  \A n \in Nodes : ~isInitialized(n) => MapsEmpty(n)

\* onConnection(p) has been called at n: a connection object of n for p has
\* reported 'connected', or a data channel of n for p has fired its open
\* event (the two handlers that call onConnection)
Announced(n, p) ==
  \/ \E i \in DOMAIN conns :
       conns[i].owner = n /\ conns[i].peer = p /\ conns[i].cstate = "connected"
  \/ \E j \in DOMAIN chans :
       chans[j].owner = n /\ chans[j].peer = p /\ chans[j].opened

\* C38: onConnection(p) is called at most once per established session: in a
\* run with one session per peer and no onDisconnection, a step that calls
\* onConnection(p) is the first to do so.
C38_OneOnConnection ==
  [][\A n \in Nodes, p \in Peers :
       Cb("onConnection", n, p) \in obs'.cbs => ~Announced(n, p)]_vars

\* C39: the hook keeps at most one live service: once none of its calls is
\* running, every service it constructed other than the referenced one is
\* not initialized, and the referenced one, when present, is initialized.
C39_OneLiveService ==
  (\A c \in DOMAIN obs.hook.calls : obs.hook.calls[c].pc \in {"done", "failed"})
    => /\ \A n \in obs.hook.created : n # obs.hook.ref => ~isInitialized(n)
       /\ obs.hook.ref # "-" => isInitialized(obs.hook.ref)
====
